---- MODULE Spec2Model ----
(***************************************************************************)
(* Tabular import and reconciliation pipeline of the chapter portal:       *)
(* member import, officer import, merchandise import, the HQ member sync   *)
(* and the 90-day removal sweep, modelled from src/pages/views.py,         *)
(* src/pages/forms_boutique.py, src/pages/forms_sync.py,                   *)
(* src/pages/models.py and                                                 *)
(* src/pages/management/commands/remove_expired_members.py.                *)
(*                                                                         *)
(* A CSV row is a function from header names to cell values, as            *)
(* csv.DictReader yields it.  A cell that a short row leaves out is the    *)
(* value None; calling .strip() on it raises AttributeError.               *)
(***************************************************************************)
EXTENDS Integers, Sequences, FiniteSets, TLC

VARIABLES
    users,          \* auth User table: set of [id, username]
    members,        \* MemberProfile table: set of profile records
    officers,       \* ChapterLeadership table: set of officer records
    products,       \* Product table: set of product records
    nextId,         \* next primary key of each table
    kind,           \* which import the current request runs
    phase,          \* position of the current request
    row_num,        \* enumerate(csv_reader, start=2)
    success_count,
    error_count,
    skipped_count,
    errors,         \* list of row-level error strings
    products_data,  \* records the merchandise parser has produced
    seen_handles,   \* _parse_shopify_csv: handles already met in this run
    skipped_rows,   \* _parse_standard_csv: rows dropped by the parser
    images_dict,    \* file names inside the uploaded images ZIP
    next_record,    \* import_products: index into products_data
    shown,          \* messages.error lines of the last summary
    last,           \* what the last step did (history, for the properties)
    now,            \* timezone.now(), in ticks
    advances,       \* how often the clock has moved
    file,           \* the member file an operator uploads again
    snap,           \* the member tables after the first run of that file
    pass,           \* completed runs of that file
    upload,         \* an uploaded header row, for format detection
    detected,       \* the format the reader made of it
    requests,       \* two import requests served at the same time
    cart_items      \* CartItem table: set of cart item records

vars == <<users, members, officers, products, nextId, kind, phase, row_num,
          success_count, error_count, skipped_count, errors, products_data,
          seen_handles, skipped_rows, images_dict, next_record, shown, last,
          now, advances, file, snap, pass, upload, detected, requests,
          cart_items>>

storeVars == <<users, members, officers, products, nextId>>
runVars == <<kind, phase, row_num, success_count, error_count, skipped_count,
             errors, products_data, seen_handles, skipped_rows, images_dict,
             next_record, shown>>
clockVars == <<now, advances>>
rerunVars == <<file, snap, pass>>
detectVars == <<upload, detected>>
sessionVars == <<requests, cart_items>>
auxVars == <<clockVars, rerunVars, detectVars, sessionVars>>

-----------------------------------------------------------------------------
(* Bounds of the model.                                                    *)

\* data rows per uploaded file
MaxRows == 2

\* the largest quantity of one cart item the model follows
MaxQuantity == 8
\* officer records the table may hold before imports stop
MaxOfficers == 3
\* clock readings per day
TicksPerDay == 2
\* how often the clock moves in a behaviour
MaxAdvances == 4

-----------------------------------------------------------------------------
(* Cell values and the string functions the handlers apply to them.        *)

\* the value csv.DictReader gives a column the row is too short for
None == "<None>"
\* the result of an expression that raised
Raised == "<raised>"
\* a date column that is None
NoDate == <<"<None>">>

\* str.strip(): surrounding whitespace removed
Strip(s) ==
    CASE s = " "     -> ""
      [] s = " A1 "  -> "A1"
      [] s = " Bob " -> "Bob"
      [] s = " Mug " -> "Mug"
      [] s = " member_number " -> "member_number"
      [] s = " first_name "    -> "first_name"
      [] s = " last_name "     -> "last_name"
      [] s = " full_name "     -> "full_name"
      [] s = " position "      -> "position"
      [] s = " name "          -> "name"
      [] s = " category "      -> "category"
      [] s = " price "         -> "price"
      [] s = " inventory "     -> "inventory"
      [] s = " Handle "        -> "Handle"
      [] s = " Title "         -> "Title"
      [] s = " Variant Price " -> "Variant Price"
      [] OTHER       -> s

\* str.lower()
Lower(s) ==
    CASE s = "Bob.Lee"            -> "bob.lee"
      [] s = "LM7"                -> "lm7"
      [] s = "A1"                 -> "a1"
      [] s = "President"          -> "president"
      [] s = "Vice President"     -> "vice president"
      [] s = "Dean"               -> "dean"
      [] s = "Drinkware"          -> "drinkware"
      [] s = "Size"               -> "size"
      [] s = "Color"              -> "color"
      [] s = "Mugs"               -> "mugs"
      [] s = "Toys"               -> "toys"
      [] s \in {"Name", "NAME"}                   -> "name"
      [] s \in {"Category", "CATEGORY"}           -> "category"
      [] s \in {"Price", "PRICE"}                 -> "price"
      [] s \in {"Title", "TITLE"}                 -> "title"
      [] s \in {"Variant Price", "VARIANT PRICE"} -> "variant price"
      [] s \in {"Member#", "MEMBER#"}             -> "member#"
      [] s \in {"Member_Number", "MEMBER_NUMBER"} -> "member_number"
      [] s \in {"Member Number", "MEMBER NUMBER"} -> "member number"
      [] s \in {"Major_Key", "MAJOR_KEY"}         -> "major_key"
      [] s \in {"First_Name", "FIRST_NAME"}       -> "first_name"
      [] s \in {"Last_Name", "LAST_NAME"}         -> "last_name"
      [] s \in {"First Name", "FIRST NAME"}       -> "first name"
      [] s \in {"Last Name", "LAST NAME"}         -> "last name"
      [] s \in {"Handle", "HANDLE"}               -> "handle"
      [] s \in {"Full_Name", "FULL_NAME"}         -> "full_name"
      [] s \in {"Position", "POSITION"}           -> "position"
      [] s \in {"Inventory", "INVENTORY"}         -> "inventory"
      [] OTHER                    -> s

\* str.upper()
Upper(s) ==
    CASE s = "lm7" -> "LM7"
      [] s = "a1"  -> "A1"
      [] s \in {"name", "Name"}                   -> "NAME"
      [] s \in {"category", "Category"}           -> "CATEGORY"
      [] s \in {"price", "Price"}                 -> "PRICE"
      [] s \in {"title", "Title"}                 -> "TITLE"
      [] s \in {"variant price", "Variant Price"} -> "VARIANT PRICE"
      [] s \in {"member#", "Member#"}             -> "MEMBER#"
      [] s \in {"member_number", "Member_Number"} -> "MEMBER_NUMBER"
      [] s \in {"member number", "Member Number"} -> "MEMBER NUMBER"
      [] s \in {"major_key", "Major_Key"}         -> "MAJOR_KEY"
      [] s \in {"first_name", "First_Name"}       -> "FIRST_NAME"
      [] s \in {"last_name", "Last_Name"}         -> "LAST_NAME"
      [] s \in {"first name", "First Name"}       -> "FIRST NAME"
      [] s \in {"last name", "Last Name"}         -> "LAST NAME"
      [] s \in {"handle", "Handle"}               -> "HANDLE"
      [] s \in {"full_name", "Full_Name"}         -> "FULL_NAME"
      [] s \in {"position", "Position"}           -> "POSITION"
      [] s \in {"inventory", "Inventory"}         -> "INVENTORY"
      [] OTHER     -> s

\* row.get(key, '')
Get(row, key) == IF key \in DOMAIN row THEN row[key] ELSE ""

\* row.get(key, '').strip(): raises on None
GetStrip(row, key) ==
    IF Get(row, key) = None THEN Raised ELSE Strip(Get(row, key))

\* a or b or c, over stripped cells: the first non-empty one; the later
\* operands are evaluated only when the earlier ones are empty
RECURSIVE FirstOf(_, _)
FirstOf(row, keys) ==
    IF keys = <<>> THEN ""
    ELSE LET v == GetStrip(row, Head(keys))
         IN  IF v = Raised THEN Raised
             ELSE IF v # "" THEN v
             ELSE IF Len(keys) = 1 THEN ""
             ELSE FirstOf(row, Tail(keys))

\* f"Row {row_num}: {text}"
RowError(rn, text) == [row |-> rn, msg |-> text]

-----------------------------------------------------------------------------
(* Dates.  A date cell is <<>> when blank, NoDate when None, and otherwise *)
(* <<separator, field1, field2, field3>>: <<"-", 2020, 1, 15>> is the text *)
(* "2020-01-15" and <<"/", 1, 15, 2020>> is "01/15/2020".                   *)

IsLeap(y) == (y % 4 = 0 /\ y % 100 # 0) \/ y % 400 = 0

DaysIn(y, m) ==
    IF m = 2 THEN (IF IsLeap(y) THEN 29 ELSE 28)
    ELSE IF m \in {4, 6, 9, 11} THEN 30 ELSE 31

ValidDate(y, m, d) ==
    y \in 1..9999 /\ m \in 1..12 /\ d \in 1..DaysIn(y, m)

\* datetime.strptime(s, fmt).date(); <<>> stands for ValueError
Strptime(s, fmt) ==
    LET sep == IF fmt = "%Y-%m-%d" THEN "-" ELSE "/"
        y   == IF fmt = "%m/%d/%Y" THEN s[4] ELSE s[2]
        m   == IF fmt = "%m/%d/%Y" THEN s[2] ELSE s[3]
        d   == IF fmt = "%m/%d/%Y" THEN s[3] ELSE s[4]
    IN  IF Len(s) = 4 /\ s[1] = sep /\ ValidDate(y, m, d)
        THEN <<y, m, d>> ELSE <<>>

RECURSIVE TryFormats(_, _)
TryFormats(s, fmts) ==
    IF fmts = <<>> THEN <<>>
    ELSE IF Strptime(s, Head(fmts)) # <<>> THEN Strptime(s, Head(fmts))
    ELSE TryFormats(s, Tail(fmts))

\* _parse_initiation_date: (date, error); raises on a None cell
ParseInitiationDate(date_str, rn, username) ==
    IF date_str = NoDate THEN [date |-> <<>>, error |-> <<>>, raised |-> TRUE]
    ELSE IF date_str = <<>> THEN [date |-> <<>>, error |-> <<>>, raised |-> FALSE]
    ELSE LET d == TryFormats(date_str, <<"%Y-%m-%d", "%m/%d/%Y">>)
         IN  IF d # <<>>
             THEN [date |-> d, error |-> <<>>, raised |-> FALSE]
             ELSE [date |-> <<>>,
                   error |-> <<RowError(rn, "Invalid date format")>>,
                   raised |-> FALSE]

-----------------------------------------------------------------------------
(* Member import: src/pages/views.py, _validate_csv_row .. import_members. *)

\* textbox7.strip().split('\n')[0].strip().split(): the words of line one
NameParts(textbox7) ==
    CASE textbox7 = "Bob Lee\n1 Main St" -> <<"Bob", "Lee">>
      [] textbox7 = "Bob"                -> <<"Bob">>
      [] OTHER                           -> <<>>

\* ' '.join(name_parts[1:])
RECURSIVE JoinWords(_)
JoinWords(ws) ==
    IF ws = <<>> THEN ""
    ELSE IF Len(ws) = 1 THEN ws[1]
    ELSE ws[1] \o " " \o JoinWords(Tail(ws))

\* a cell that is neither '' nor None
Truthy(v) == v # "" /\ v # None

MemberNumberExists(mem, member_number) ==
    \E p \in mem : p.member_number = member_number

UsernameExists(usr, username) ==
    \E u \in usr : u.username = username

\* _validate_csv_row: (username, email, member_number, errors, should_skip)
ValidateCsvRow(row, rn, mem, usr) ==
    LET mn0   == FirstOf(row, <<"member_number", "Member#", "MAJOR_KEY">>)
        fn0   == FirstOf(row, <<"first_name", "First Name", "FIRST_NAME">>)
        ln0   == FirstOf(row, <<"last_name", "Last Name", "LAST_NAME">>)
        need  == mn0 = "" \/ fn0 = "" \/ ln0 = ""
        parts == IF need /\ Truthy(Get(row, "textbox7"))
                 THEN NameParts(Get(row, "textbox7")) ELSE <<>>
        fn    == IF fn0 = "" /\ parts # <<>> THEN parts[1] ELSE fn0
        ln    == IF ln0 = "" /\ Len(parts) > 1
                 THEN JoinWords(Tail(parts)) ELSE ln0
        mn    == IF need /\ mn0 = "" /\ Truthy(Get(row, "textbox3"))
                 THEN Strip(Get(row, "textbox3")) ELSE mn0
        email == FirstOf(row, <<"email", "EMAIL">>)
        un0   == GetStrip(row, "username")
        un    == IF un0 # "" THEN un0
                 ELSE IF mn # "" THEN "member_" \o mn
                 ELSE IF fn # "" /\ ln # "" THEN Lower(fn \o "." \o ln)
                 ELSE None
        res(u, e, skip) ==
            [username |-> u, email |-> email, member_number |-> mn,
             errors |-> e, should_skip |-> skip, raised |-> FALSE]
    IN  IF Raised \in {mn0, fn0, ln0, email, un0}
        THEN [username |-> None, email |-> "", member_number |-> "",
              errors |-> <<>>, should_skip |-> FALSE, raised |-> TRUE]
        ELSE IF un = None
        THEN res(None, <<RowError(rn, "Cannot generate username")>>, FALSE)
        ELSE IF mn = ""
        THEN res(un, <<RowError(rn, "Member number is required")>>, FALSE)
        ELSE IF MemberNumberExists(mem, mn)
        THEN res(un, <<>>, TRUE)
        ELSE IF UsernameExists(usr, un)
        THEN res(un, <<RowError(rn, "Username already exists")>>, FALSE)
        ELSE res(un, <<>>, FALSE)

\* the member number and the username _validate_csv_row resolves for a row
RowMemberNumber(row) == ValidateCsvRow(row, 0, {}, {}).member_number
RowUsername(row) == ValidateCsvRow(row, 0, {}, {}).username

\* variant: a save that derives every status from dues_current
MemberSaveNoExemption(p) ==
    [p EXCEPT !.status = IF p.dues_current THEN "financial"
                         ELSE "non_financial"]

\* MemberProfile.save(): status follows dues_current unless exempt
MemberSave(p) ==
    IF p.status \notin {"financial_life_member", "non_financial_life_member",
                        "new_member", "suspended"}
    THEN [p EXCEPT !.status = IF p.dues_current THEN "financial"
                              ELSE "non_financial"]
    ELSE p

\* variant: 'LM' in member_number, without upper()
HasLifeMemberMarkerExactCase(member_number) == member_number \in {"LM7"}

\* 'LM' in member_number.upper()
HasLifeMemberMarker(member_number) == Upper(member_number) \in {"LM7"}

\* _create_member_from_row on the store st = [users, members, nextId]:
\* the user row is committed before the profile is built, so a failure
\* after create_user leaves the user behind
CreateMemberFromRow(row, username, member_number, initiation_date, st) ==
    LET user   == [id |-> st.nextId["user"], username |-> username]
        st1    == [st EXCEPT !.users = @ \cup {user},
                             !.nextId["user"] = @ + 1]
        dues   == GetStrip(row, "dues_current")
        auto   == IF HasLifeMemberMarker(member_number)
                  THEN "financial_life_member" ELSE "financial"
        status == IF GetStrip(row, "status") \in {"", Raised}
                  THEN auto ELSE GetStrip(row, "status")
        prof   == MemberSave(
                    [id |-> st.nextId["member"], user |-> user.id,
                     member_number |-> member_number, status |-> status,
                     initiation_date |-> initiation_date,
                     dues_current |-> TRUE,
                     marked_for_removal_date |-> {},
                     removal_reason |-> ""])
    IN  IF UsernameExists(st.users, username)
        THEN [st |-> st, raised |-> TRUE]
        ELSE IF dues = Raised \/ GetStrip(row, "status") = Raised
        THEN [st |-> st1, raised |-> TRUE]
        ELSE IF MemberNumberExists(st.members, member_number)
        THEN [st |-> st1, raised |-> TRUE]
        ELSE [st |-> [st1 EXCEPT !.members = @ \cup {prof},
                                 !.nextId["member"] = @ + 1],
              raised |-> FALSE]

\* what _process_csv_row returns, with the store it leaves
RowResult(s, ok, e, skip, exc) ==
    [st |-> s, success |-> ok, errors |-> e, skipped |-> skip, raised |-> exc]

\* _process_csv_row, after _create_member_from_row returned c
AfterCreate(st, d, c) ==
    IF c.raised THEN RowResult(c.st, FALSE, <<>>, FALSE, TRUE)
    ELSE RowResult(c.st, TRUE, d.error, FALSE, FALSE)

\* _process_csv_row, after _parse_initiation_date returned d
AfterDateParse(row, st, v, d) ==
    IF d.raised THEN RowResult(st, FALSE, <<>>, FALSE, TRUE)
    ELSE AfterCreate(st, d, CreateMemberFromRow(row, v.username,
                                             v.member_number, d.date, st))

\* _process_csv_row, after _validate_csv_row returned v
AfterValidation(row, rn, st, v) ==
    IF v.raised THEN RowResult(st, FALSE, <<>>, FALSE, TRUE)
    ELSE IF v.should_skip THEN RowResult(st, FALSE, <<>>, TRUE, FALSE)
    ELSE IF v.errors # <<>> THEN RowResult(st, FALSE, v.errors, FALSE, FALSE)
    ELSE AfterDateParse(row, st, v,
                ParseInitiationDate(IF "initiation_date" \in DOMAIN row
                                    THEN row["initiation_date"] ELSE <<>>,
                                    rn, v.username))

\* variant: a row handler that replaces the member a duplicate row names
\* by a new user and profile instead of skipping the row
ProcessCsvRowReplacing(row, rn, st) ==
    LET v    == ValidateCsvRow(row, rn, st.members, st.users)
        old  == {m \in st.members : m.member_number = v.member_number}
        st0  == [st EXCEPT !.members = @ \ old,
                           !.users = {u \in @ :
                                        /\ u.id \notin {m.user : m \in old}
                                        /\ u.username # v.username}]
    IN  IF v.should_skip
        THEN [AfterValidation(row, rn, st0, [v EXCEPT !.should_skip = FALSE])
                EXCEPT !.success = FALSE, !.skipped = TRUE]
        ELSE AfterValidation(row, rn, st, v)

\* _process_csv_row: (success, errors, skipped), or an exception
ProcessCsvRow(row, rn, st) ==
    AfterValidation(row, rn, st, ValidateCsvRow(row, rn, st.members, st.users))

\* variant: a loop that files a skipped row under the errors
TallySkippedAsError(t, r, rn) ==
    IF r.raised
    THEN [t EXCEPT !.errors = Append(@, RowError(rn, "exception")),
                   !.error_count = @ + 1]
    ELSE [t EXCEPT !.success_count = IF r.success THEN @ + 1 ELSE @,
                   !.error_count = IF ~r.success THEN @ + 1 ELSE @,
                   !.errors = @ \o r.errors]

\* variant: a loop whose except branch records the message of a row that
\* raised without counting the row
TallyRaisedUncounted(t, r, rn) ==
    IF r.raised
    THEN [t EXCEPT !.errors = Append(@, RowError(rn, "exception"))]
    ELSE [t EXCEPT !.skipped_count = IF r.skipped THEN @ + 1 ELSE @,
                   !.success_count =
                       IF ~r.skipped /\ r.success THEN @ + 1 ELSE @,
                   !.error_count =
                       IF ~r.skipped /\ ~r.success THEN @ + 1 ELSE @,
                   !.errors = @ \o r.errors]

\* one iteration of the loop of _process_csv_file, on the tallies
\* t = [success_count, error_count, skipped_count, errors]
TallyRow(t, r, rn) ==
    IF r.raised
    THEN [t EXCEPT !.errors = Append(@, RowError(rn, "exception")),
                   !.error_count = @ + 1]
    ELSE [t EXCEPT !.skipped_count = IF r.skipped THEN @ + 1 ELSE @,
                   !.success_count =
                       IF ~r.skipped /\ r.success THEN @ + 1 ELSE @,
                   !.error_count =
                       IF ~r.skipped /\ ~r.success THEN @ + 1 ELSE @,
                   !.errors = @ \o r.errors]

-----------------------------------------------------------------------------
(* Officer import: src/pages/views.py, _validate_officer_csv_row ..        *)
(* import_officers.                                                        *)

\* textbox7.strip().split('\n')[0].strip(), with a leading "Bro. " removed
OfficerNameFromTextbox(textbox7) ==
    CASE textbox7 = "Bro. John Doe\n1 Main St" -> "John Doe"
      [] textbox7 = "Vacant Position"          -> "Vacant Position"
      [] OTHER                                 -> ""

\* textbox5.strip().split('\n')[0].strip()
FirstLine(textbox) ==
    CASE textbox = "President\nEffective Date: 1/1/2024" -> "President"
      [] OTHER                                           -> ""

\* 'Vacant Position' in full_name
ContainsVacant(full_name) == full_name \in {"Vacant Position"}

\* position_map.get(position_lower, 'other')
PositionMap(position_lower) ==
    CASE position_lower = "president"           -> "president"
      [] position_lower = "1st vice president"  -> "vice_president_1st"
      [] position_lower = "2nd vice president"  -> "vice_president_2nd"
      [] position_lower = "vice president"      -> "vice_president_1st"
      [] position_lower = "vp"                  -> "vice_president_1st"
      [] position_lower = "secretary"           -> "secretary"
      [] position_lower = "financial secretary" -> "secretary"
      [] position_lower = "treasurer"           -> "treasurer"
      [] position_lower = "parliamentarian"     -> "parliamentarian"
      [] position_lower = "chaplain"            -> "chaplain"
      [] position_lower = "historian"           -> "historian"
      [] position_lower = "sergeant at arms"    -> "sergeant_at_arms"
      [] position_lower = "board member"        -> "board_member"
      [] position_lower = "board"               -> "board_member"
      [] OTHER                                  -> "other"

\* ChapterLeadership.objects.filter(full_name=, position=, is_active=True)
OfficerExists(off, full_name, position) ==
    \E o \in off :
        o.full_name = full_name /\ o.position = position /\ o.is_active

\* _validate_officer_csv_row: the full name it resolves for the row
OfficerFullName(row) ==
    LET fn0 == FirstOf(row, <<"full_name", "Full Name", "FULL_NAME">>)
    IN  IF fn0 = "" /\ Truthy(Get(row, "textbox7"))
        THEN OfficerNameFromTextbox(Get(row, "textbox7")) ELSE fn0

\* _validate_officer_csv_row: the position it resolves for the row
OfficerPosition(row) ==
    LET ps0 == FirstOf(row, <<"position", "Position", "POSITION">>)
    IN  IF ps0 = "" /\ Truthy(Get(row, "textbox5"))
        THEN FirstLine(Get(row, "textbox5")) ELSE ps0

\* _validate_officer_csv_row: (data, errors, should_skip)
ValidateOfficerCsvRow(row, rn, off) ==
    LET fn0 == FirstOf(row, <<"full_name", "Full Name", "FULL_NAME">>)
        ps0 == FirstOf(row, <<"position", "Position", "POSITION">>)
        fn  == OfficerFullName(row)
        ps  == OfficerPosition(row)
        ord == GetStrip(row, "display_order")
        res(d, e, skip) ==
            [data |-> d, errors |-> e, should_skip |-> skip, raised |-> FALSE]
    IN  IF Raised \in {fn0, ps0}
        THEN [data |-> <<>>, errors |-> <<>>, should_skip |-> FALSE,
              raised |-> TRUE]
        ELSE IF ContainsVacant(fn) \/ fn = ""
        THEN res(<<>>, <<>>, TRUE)
        ELSE IF ps = ""
        THEN res(<<>>, <<RowError(rn, "Position is required")>>, FALSE)
        ELSE IF OfficerExists(off, fn, ps)
        THEN res(<<>>, <<>>, TRUE)
        ELSE IF ord = Raised
        THEN [data |-> <<>>, errors |-> <<>>, should_skip |-> FALSE,
              raised |-> TRUE]
        ELSE res([full_name |-> fn, position |-> ps,
                  position_custom |-> GetStrip(row, "position_custom"),
                  display_order |-> IF ord = "" THEN "0" ELSE ord],
                 <<>>, FALSE)

\* int(text): the number, or ValueError
IsIntText(text) == text \in {"0", "1", "2"}

\* _create_officer_from_row on the store st = [officers, nextId]
CreateOfficerFromRow(data, st) ==
    LET position_value  == PositionMap(Lower(data.position))
        position_custom == IF position_value = "other" THEN data.position
                           ELSE data.position_custom
        officer == [id |-> st.nextId["officer"],
                    full_name |-> data.full_name,
                    position |-> position_value,
                    position_custom |-> position_custom,
                    display_order |-> data.display_order,
                    is_active |-> TRUE]
    IN  IF ~IsIntText(data.display_order)
        THEN [st |-> st, raised |-> TRUE]
        ELSE [st |-> [st EXCEPT !.officers = @ \cup {officer},
                                !.nextId["officer"] = @ + 1],
              raised |-> FALSE]

\* variant: a row handler that reports a skipped officer row as a failure
ProcessOfficerCsvRowSkipFails(row, rn, st) ==
    LET v == ValidateOfficerCsvRow(row, rn, st.officers)
        c == CreateOfficerFromRow(v.data, st)
        out(s, ok, e, skip, exc) ==
            [st |-> s, success |-> ok, errors |-> e, skipped |-> skip,
             raised |-> exc]
    IN  IF v.raised THEN out(st, FALSE, <<>>, FALSE, TRUE)
        ELSE IF v.should_skip THEN out(st, FALSE, <<>>, FALSE, FALSE)
        ELSE IF v.errors # <<>> THEN out(st, FALSE, v.errors, FALSE, FALSE)
        ELSE IF c.raised THEN out(st, FALSE, <<>>, FALSE, TRUE)
        ELSE out(c.st, TRUE, <<>>, FALSE, FALSE)

\* _process_officer_csv_row: (success, errors, skipped), or an exception
ProcessOfficerCsvRow(row, rn, st) ==
    LET v == ValidateOfficerCsvRow(row, rn, st.officers)
        c == CreateOfficerFromRow(v.data, st)
        out(s, ok, e, skip, exc) ==
            [st |-> s, success |-> ok, errors |-> e, skipped |-> skip,
             raised |-> exc]
    IN  IF v.raised THEN out(st, FALSE, <<>>, FALSE, TRUE)
        ELSE IF v.should_skip THEN out(st, TRUE, <<>>, TRUE, FALSE)
        ELSE IF v.errors # <<>> THEN out(st, FALSE, v.errors, FALSE, FALSE)
        ELSE IF c.raised THEN out(st, FALSE, <<>>, FALSE, TRUE)
        ELSE out(c.st, TRUE, <<>>, FALSE, FALSE)

\* one iteration of the loop of _process_officer_csv_file
TallyOfficerRow(t, r, rn) ==
    IF r.raised
    THEN [t EXCEPT !.errors = Append(@, RowError(rn, "exception")),
                   !.error_count = @ + 1]
    ELSE [t EXCEPT !.skipped_count = IF r.skipped THEN @ + 1 ELSE @,
                   !.success_count =
                       IF ~r.skipped /\ r.success THEN @ + 1 ELSE @,
                   !.error_count =
                       IF ~r.skipped /\ ~r.success THEN @ + 1 ELSE @,
                   !.errors = @ \o r.errors]

-----------------------------------------------------------------------------
(* Numeric cells.  The text of a price or inventory cell is a sequence of  *)
(* characters, <<"$", "1", "2", ".", "5", "0">> for "$12.50", so that      *)
(* replace(), strip(), float() and int() are computed on it.  A parsed     *)
(* number is [ok, neg, mant, exp], standing for (-)mant * 10^-exp.         *)

DigitChars == {"0", "1", "2", "3", "4", "5", "6", "7", "8", "9"}

DigitVal(c) ==
    CASE c = "0" -> 0 [] c = "1" -> 1 [] c = "2" -> 2 [] c = "3" -> 3
      [] c = "4" -> 4 [] c = "5" -> 5 [] c = "6" -> 6 [] c = "7" -> 7
      [] c = "8" -> 8 [] c = "9" -> 9

\* text.replace(ch, '')
RemoveChar(text, ch) == SelectSeq(text, LAMBDA c : c # ch)

\* text.strip() on a character sequence
RECURSIVE StripText(_)
StripText(text) ==
    IF text = <<>> THEN <<>>
    ELSE IF Head(text) = " " THEN StripText(Tail(text))
    ELSE IF text[Len(text)] = " "
    THEN StripText(SubSeq(text, 1, Len(text) - 1))
    ELSE text

AllDigits(text) == \A i \in 1..Len(text) : text[i] \in DigitChars

RECURSIVE DigitsValue(_)
DigitsValue(text) ==
    IF text = <<>> THEN 0
    ELSE 10 * DigitsValue(SubSeq(text, 1, Len(text) - 1))
         + DigitVal(text[Len(text)])

NotANumber == [ok |-> FALSE, neg |-> FALSE, mant |-> 0, exp |-> 0]

\* positions of the decimal point
DotAt(text) == {i \in 1..Len(text) : text[i] = "."}

\* float('nan'): a number that is neither below zero nor at or above it
NaN == [ok |-> TRUE, neg |-> FALSE, mant |-> 0, exp |-> -1]

IsNaN(n) == n.ok /\ n.exp < 0

\* float(text) for the cells of the uploads: 'nan' in any letter case, or
\* plain decimal text (optional sign, digits, at most one point, at least
\* one digit); any other of these cells is ValueError
ParseFloat(text0) ==
    LET text == StripText(text0)
        neg  == text # <<>> /\ Head(text) = "-"
        body == IF text # <<>> /\ Head(text) \in {"-", "+"}
                THEN Tail(text) ELSE text
        dots == DotAt(body)
        dot  == IF dots = {} THEN Len(body) + 1 ELSE CHOOSE i \in dots : TRUE
        ip   == SubSeq(body, 1, dot - 1)
        fp   == SubSeq(body, dot + 1, Len(body))
    IN  IF body \in {<<"n", "a", "n">>, <<"N", "a", "N">>} THEN NaN
        ELSE IF Cardinality(dots) <= 1 /\ AllDigits(ip) /\ AllDigits(fp)
           /\ Len(ip) + Len(fp) > 0
        THEN [ok |-> TRUE, neg |-> neg,
              mant |-> DigitsValue(ip \o fp), exp |-> Len(fp)]
        ELSE NotANumber

\* int(text): optional sign and digits only; anything else is ValueError
ParseInt(text0) ==
    LET text == StripText(text0)
        neg  == text # <<>> /\ Head(text) = "-"
        body == IF text # <<>> /\ Head(text) \in {"-", "+"}
                THEN Tail(text) ELSE text
    IN  IF body # <<>> /\ AllDigits(body)
        THEN [ok |-> TRUE, neg |-> neg, mant |-> DigitsValue(body), exp |-> 0]
        ELSE NotANumber

Zero == [ok |-> TRUE, neg |-> FALSE, mant |-> 0, exp |-> 0]

\* variant: every value is replaced by 0
ClampAlways(n) == Zero

\* if value < 0: value = 0
ClampNegative(n) == IF n.neg /\ n.mant > 0 THEN Zero ELSE n

\* a numeric cell, or None
NoText == <<"<None>">>

RECURSIVE Pow10(_)
Pow10(n) == IF n = 0 THEN 1 ELSE 10 * Pow10(n - 1)

\* Decimal('NaN') as a stored price
NaNCents == -1

\* Decimal(str(price)) stored in DecimalField(decimal_places=2): the price
\* in cents, rounded half to even
ToCents(n) ==
    IF IsNaN(n) THEN NaNCents
    ELSE IF n.exp <= 2 THEN n.mant * Pow10(2 - n.exp)
    ELSE LET unit == Pow10(n.exp - 2)
             q    == n.mant \div unit
             r    == n.mant % unit
         IN  IF 2 * r > unit \/ (2 * r = unit /\ q % 2 = 1)
             THEN q + 1 ELSE q

-----------------------------------------------------------------------------
(* Merchandise import, the parsers: src/pages/forms_boutique.py.           *)

valid_categories == {"apparel", "accessories", "drinkware", "other"}

\* numeric cell of a row: row.get(key, default) or default
NumCell(row, key) ==
    IF key \in DOMAIN row /\ row[key] # NoText /\ row[key] # <<>>
    THEN row[key] ELSE <<"0">>

\* {k.lower().strip(): v for k, v in row.items()}
RowLower(row) ==
    [k2 \in {Lower(Strip(k)) : k \in DOMAIN row} |->
        row[CHOOSE k \in DOMAIN row : Lower(Strip(k)) = k2]]

\* the product record both parsers append to products_data
ProductData(name, category, price, inventory, sizes, colors, url, path) ==
    [name |-> name, category |-> category, price |-> price,
     inventory |-> inventory, sizes |-> sizes, colors |-> colors,
     image_url |-> url, image_path |-> path]

NoRecord == ProductData("", "", Zero, 0, "", "", "", "")

\* _parse_standard_csv, one row: a record, or the row is skipped (blank
\* name, or any exception while reading the row)
ParseStandardRow(row, rn) ==
    LET rl    == RowLower(row)
        name  == GetStrip(rl, "name")
        cat0  == IF "category" \in DOMAIN rl
                 THEN (IF GetStrip(rl, "category") = Raised THEN Raised
                       ELSE Lower(GetStrip(rl, "category")))
                 ELSE "other"
        cat   == IF cat0 \in valid_categories THEN cat0 ELSE "other"
        pf    == ParseFloat(RemoveChar(RemoveChar(NumCell(rl, "price"),
                                                  "$"), ","))
        price == IF pf.ok THEN ClampNegative(pf) ELSE Zero
        iv    == ParseInt(NumCell(rl, "inventory"))
        inv   == IF iv.ok /\ ~iv.neg THEN iv.mant ELSE 0
        url   == GetStrip(rl, "image_url")
        path  == GetStrip(rl, "image_path")
        sizes == GetStrip(rl, "sizes")
        cols  == GetStrip(rl, "colors")
        skip(reason) == [kept |-> FALSE, rec |-> NoRecord,
                         skipped |-> <<RowError(rn, reason)>>]
    IN  IF None \in DOMAIN row THEN skip("exception")
        ELSE IF name = Raised THEN skip("exception")
        ELSE IF name = "" THEN skip("No product name")
        ELSE IF Raised \in {cat0, url, path, sizes, cols}
        THEN skip("exception")
        ELSE [kept |-> TRUE,
              rec |-> ProductData(name, cat, price, inv, sizes, cols,
                                  url, path),
              skipped |-> <<>>]

\* the words of the category lists that occur in the lower-cased Type cell
WordsIn(shopify_type) ==
    CASE shopify_type = "mugs"         -> {"mug"}
      [] shopify_type = "t-shirts"     -> {"shirt"}
      [] shopify_type = "polo shirts"  -> {"polo", "shirt"}
      [] shopify_type = "baseball cap" -> {"cap"}
      [] shopify_type = "cup hats"     -> {"cup", "hat"}
      [] shopify_type = "drinkware"    -> {"drinkware"}
      [] OTHER                         -> {}

\* the category a Shopify Type maps to
TypeCategory(shopify_type) ==
    IF shopify_type = "" THEN "other"
    ELSE IF WordsIn(shopify_type) \cap {"shirt", "apparel", "clothing",
                "jacket", "hoodie", "polo", "tee"} # {}
    THEN "apparel"
    ELSE IF WordsIn(shopify_type) \cap {"accessory", "accessories", "hat",
                "cap", "bag", "pin", "lanyard"} # {}
    THEN "accessories"
    ELSE IF WordsIn(shopify_type) \cap {"drinkware", "mug", "cup", "tumbler",
                "bottle", "glass"} # {}
    THEN "drinkware"
    ELSE "other"

\* the value of the first option slot (1..3) whose name is `target`
OptionValue(row, target) ==
    LET n1 == GetStrip(row, "Option1 Name")
        n2 == GetStrip(row, "Option2 Name")
        n3 == GetStrip(row, "Option3 Name")
    IN  IF n1 = Raised THEN Raised
        ELSE IF Lower(n1) = target THEN GetStrip(row, "Option1 Value")
        ELSE IF n2 = Raised THEN Raised
        ELSE IF Lower(n2) = target THEN GetStrip(row, "Option2 Value")
        ELSE IF n3 = Raised THEN Raised
        ELSE IF Lower(n3) = target THEN GetStrip(row, "Option3 Value")
        ELSE ""

\* variant: a parser that keeps no set of seen handles
ParseShopifyRowKeepsVariants(row, rn, seen) ==
    LET name == GetStrip(row, "Title")
        type == GetStrip(row, "Type")
        pf   == ParseFloat(NumCell(row, "Variant Price"))
        iv   == ParseInt(NumCell(row, "Variant Inventory Qty"))
    IN  IF name \in {"", Raised}
        THEN [kept |-> FALSE, rec |-> NoRecord, seen |-> seen,
              raised |-> name = Raised]
        ELSE [kept |-> TRUE,
              rec |-> ProductData(name, TypeCategory(Lower(type)),
                                  IF pf.ok THEN ClampNegative(pf) ELSE Zero,
                                  IF iv.ok /\ ~iv.neg THEN iv.mant ELSE 0,
                                  OptionValue(row, "size"),
                                  OptionValue(row, "color"),
                                  GetStrip(row, "Image Src"), ""),
              seen |-> seen, raised |-> FALSE]

\* _parse_shopify_csv, one row with the handles seen so far: a record, a
\* skipped row (variant of a seen handle, blank title), or ValidationError
ParseShopifyRow(row, rn, seen) ==
    LET handle == GetStrip(row, "Handle")
        name   == GetStrip(row, "Title")
        type   == GetStrip(row, "Type")
        pf     == ParseFloat(NumCell(row, "Variant Price"))
        price  == IF pf.ok THEN ClampNegative(pf) ELSE Zero
        iv     == ParseInt(NumCell(row, "Variant Inventory Qty"))
        inv    == IF iv.ok /\ ~iv.neg THEN iv.mant ELSE 0
        body   == GetStrip(row, "Body (HTML)")
        url    == GetStrip(row, "Image Src")
        sizes  == OptionValue(row, "size")
        cols   == OptionValue(row, "color")
        res(k, r, sn, exc) ==
            [kept |-> k, rec |-> r, seen |-> sn, raised |-> exc]
    IN  IF handle = Raised THEN res(FALSE, NoRecord, seen, TRUE)
        ELSE IF handle \in seen THEN res(FALSE, NoRecord, seen, FALSE)
        ELSE IF name = Raised
        THEN res(FALSE, NoRecord, seen \cup {handle}, TRUE)
        ELSE IF name = ""
        THEN res(FALSE, NoRecord, seen \cup {handle}, FALSE)
        ELSE IF Raised \in {type, body, url, sizes, cols}
        THEN res(FALSE, NoRecord, seen \cup {handle}, TRUE)
        ELSE res(TRUE,
                 ProductData(name, TypeCategory(Lower(type)), price, inv,
                             sizes, cols, url, ""),
                 seen \cup {handle}, FALSE)

-----------------------------------------------------------------------------
(* Merchandise import, the view: src/pages/views.py, import_products.      *)

\* name.replace(' ', '_')
ReplaceSpaces(name) ==
    CASE name = "Chapter Mug" -> "Chapter_Mug"
      [] OTHER                -> name

\* os.path.splitext(path)[1]
ExtOf(path) ==
    CASE path = "mug.png"          -> ".png"
      [] path = "http://x/mug.png" -> ".png"
      [] OTHER                     -> ""

\* DecimalField(max_digits=10, decimal_places=2) accepts the amount: at
\* most eight digits before the point
DecimalFits(cents) == cents \div 100 < Pow10(8)

\* variant: a get_or_create that never finds the product it looks for
SameNameNeverFound(prods, name) == {}

\* the lookup of get_or_create: the products with this name
SameName(prods, name) == {p \in prods : p.name = name}

\* variant: a product whose image cannot be resolved is not created
ImportProductImageRequired(pd, st, images, download, save_ok, finite_check) ==
    LET same    == SameName(st.products, pd.name)
        fails   == IF pd.image_path # "" /\ images # {}
                   THEN pd.image_path \notin images \/ ~save_ok
                   ELSE pd.image_url # "" /\ (download # "200" \/ ~save_ok)
        new     == [id |-> st.nextId["product"], name |-> pd.name,
                    category |-> pd.category, price |-> ToCents(pd.price),
                    inventory |-> pd.inventory, sizes |-> pd.sizes,
                    colors |-> pd.colors, image |-> ""]
    IN  IF same # {} \/ fails
        THEN [st |-> st, created |-> FALSE, raised |-> fails]
        ELSE [st |-> [st EXCEPT !.products = @ \cup {new},
                                !.nextId["product"] = @ + 1],
              created |-> TRUE, raised |-> FALSE]

\* Product.objects.get_or_create(name=..., defaults=...), then the image
\* handling, for one record of products_data, on st = [products, nextId].
\* download is the outcome of requests.get, save_ok that of image.save,
\* finite_check whether the installed DecimalField.to_python rejects a
\* Decimal that is not finite (it does from Django 4.2 on).
ImportProduct(pd, st, images, download, save_ok, finite_check) ==
    LET same    == SameName(st.products, pd.name)
        new     == [id |-> st.nextId["product"], name |-> pd.name,
                    category |-> pd.category, price |-> ToCents(pd.price),
                    inventory |-> pd.inventory, sizes |-> pd.sizes,
                    colors |-> pd.colors, image |-> ""]
        created == same = {}
        product == IF created THEN new ELSE CHOOSE p \in same : TRUE
        st1     == IF created
                   THEN [st EXCEPT !.products = @ \cup {new},
                                   !.nextId["product"] = @ + 1]
                   ELSE st
        withImage(ext) ==
            [st1 EXCEPT !.products = (@ \ {product}) \cup
                {[product EXCEPT !.image = ReplaceSpaces(product.name) \o ext]}]
        out(s, c, exc) == [st |-> s, created |-> c, raised |-> exc]
    IN  IF Cardinality(same) > 1 THEN out(st, FALSE, TRUE)
        ELSE IF created /\ ~DecimalFits(ToCents(pd.price))
        THEN out(st, FALSE, TRUE)
        ELSE IF created /\ IsNaN(pd.price) /\ finite_check
        THEN out(st, FALSE, TRUE)
        ELSE IF pd.image_path # "" /\ images # {}
        THEN IF pd.image_path \in images
             THEN IF save_ok
                  THEN out(withImage(ExtOf(pd.image_path)), created, FALSE)
                  ELSE out(st1, FALSE, TRUE)
             ELSE out(st1, created, FALSE)
        ELSE IF pd.image_url # ""
        THEN IF download = "200" /\ save_ok
             THEN out(withImage(IF ExtOf(pd.image_url) = "" THEN ".jpg"
                                ELSE ExtOf(pd.image_url)), created, FALSE)
             ELSE out(st1, created, FALSE)
        ELSE out(st1, created, FALSE)

\* _show_import_results: the error lines shown, errors[:10] and a
\* "... and N more errors" line
ShowImportResults(ec, errs) ==
    IF ec > 0
    THEN SubSeq(errs, 1, IF Len(errs) < 10 THEN Len(errs) ELSE 10)
         \o (IF Len(errs) > 10
             THEN <<[row |-> 0, msg |-> "more", n |-> Len(errs) - 10]>>
             ELSE <<>>)
    ELSE <<>>

-----------------------------------------------------------------------------
(* Uploaded rows.                                                          *)

MemberRow(mn, fn, ln, un, d, dc) ==
    [member_number |-> mn, first_name |-> fn, last_name |-> ln,
     username |-> un, initiation_date |-> d, dues_current |-> dc]

GoodDate == <<"-", 2020, 1, 15>>
BadDate == <<"/", 13, 45, 2020>>

\* rows of a member file: blank or present member number, explicit or
\* generated username, each kind of date cell, a row too short to hold
\* the dues_current column
MemberRows ==
    {MemberRow(mn, "Bob", "Lee", un, d, "") :
        mn \in {"A1", "LM7"}, un \in {"", "bob"},
        d \in {<<>>, GoodDate, BadDate, NoDate}}
    \cup
    {MemberRow(mn, "Bob", "Lee", un, <<>>, None) :
        mn \in {"A1", "LM7"}, un \in {"", "bob"}}
    \cup
    {MemberRow(mn, n, n, un, <<>>, "") :
        mn \in {"", " "}, n \in {"", "Bob"}, un \in {"", "bob"}}

OfficerRow(fn, ps, ord) ==
    [full_name |-> fn, position |-> ps, display_order |-> ord]

\* rows of an officer file: blank and vacant names, a position spelled as
\* the chapter writes it and as the model stores it, a custom position,
\* a display order that is no number
OfficerRows ==
    {OfficerRow(fn, "President", "") : fn \in {"", " ", "Vacant Position"}}
    \cup
    {OfficerRow("John", ps, ord) :
        ps \in {"", "President", "president", "Dean"}, ord \in {"", "x"}}

StandardRow(name, path, url) ==
    [name |-> name, category |-> "Drinkware",
     price |-> <<"1", "2", ".", "5", "0">>, inventory |-> <<"4", "0">>,
     image_path |-> path, image_url |-> url]

\* rows of a generic merchandise file: blank and present names, an image
\* from the ZIP or from a URL, a row too short to hold the image columns
StandardRows ==
    {StandardRow(name, "", "") : name \in {"", " ", "Mug", "Cap"}}
    \cup
    {StandardRow("Mug", "mug.png", ""), StandardRow("Mug", "", "http://x/mug"),
     StandardRow("Mug", None, None)}

ShopifyRow(handle, title, ovalue) ==
    ("Handle" :> handle) @@ ("Title" :> title) @@ ("Type" :> "Mugs")
    @@ ("Variant Price" :> <<"1", "2", ".", "5", "0">>)
    @@ ("Variant Inventory Qty" :> <<"3">>)
    @@ ("Body (HTML)" :> "") @@ ("Image Src" :> "")
    @@ ("Option1 Name" :> "Size") @@ ("Option1 Value" :> ovalue)

\* rows of a storefront export: variants of one handle, a blank title, a
\* row too short to hold the Title column
ShopifyRows ==
    {ShopifyRow("mug", t, v) : t \in {"", "Mug", None}, v \in {"S", "M"}}

-----------------------------------------------------------------------------
(* The requests.                                                           *)

MemberStore == [users |-> users, members |-> members, nextId |-> nextId]
OfficerStore == [officers |-> officers, nextId |-> nextId]
ProductStore == [products |-> products, nextId |-> nextId]
Tallies == [success_count |-> success_count, error_count |-> error_count,
            skipped_count |-> skipped_count, errors |-> errors]

Idle == phase \in {"idle", "done", "aborted"}

\* The three imports write disjoint tables (users and members, officers,
\* products), so a sequence of runs that mixes them is, on each table, a
\* sequence of runs of one import: a behaviour follows one of the three.
SameTables(k) ==
    \/ kind = "none"
    \/ kind = k
    \/ {kind, k} \subseteq {"standard", "shopify"}

BeginRun(k, ph) ==
    /\ Idle
    /\ SameTables(k)
    /\ kind' = k
    /\ phase' = ph
    /\ row_num' = 2
    /\ success_count' = 0
    /\ error_count' = 0
    /\ skipped_count' = 0
    /\ errors' = <<>>
    /\ products_data' = <<>>
    /\ seen_handles' = {}
    /\ skipped_rows' = <<>>
    /\ next_record' = 1
    /\ shown' = <<>>

\* import_members, up to the first row
StartMemberImport ==
    /\ BeginRun("member", "rows")
    /\ images_dict' = {}
    /\ last' = [op |-> "start"]
    /\ UNCHANGED <<storeVars, auxVars>>

\* what a row handler returned: (success, errors, skipped) or an exception
Outcome(r) ==
    IF r.raised THEN "raised"
    ELSE IF r.skipped THEN "skipped"
    ELSE IF r.success THEN "created"
    ELSE "error"

\* the loop of _process_csv_file after the handler returned r for the row
\* and the tallies became t
MemberRowDone(row, r, t) ==
    /\ users' = r.st.users
    /\ members' = r.st.members
    /\ nextId' = r.st.nextId
    /\ success_count' = t.success_count
    /\ error_count' = t.error_count
    /\ skipped_count' = t.skipped_count
    /\ errors' = t.errors
    /\ last' = [op |-> "member_row", row |-> row, rn |-> row_num,
                outcome |-> Outcome(r)]

\* the tallies of the loop after the handler returned r
MemberRowTallied(row, r) == MemberRowDone(row, r, TallyRow(Tallies, r, row_num))

\* _process_csv_file: one iteration of the loop, on `row`
MemberRowEffect(row) ==
    /\ MemberRowTallied(row, ProcessCsvRow(row, row_num, MemberStore))
    /\ row_num' = row_num + 1
    /\ UNCHANGED <<officers, products, kind, phase, products_data,
                   seen_handles, skipped_rows, images_dict, next_record,
                   shown, clockVars, sessionVars, detectVars>>

\* _process_csv_file: one iteration of the loop
MemberRowStep(row) ==
    /\ phase = "rows" /\ kind = "member"
    /\ row_num < 2 + MaxRows
    /\ MemberRowEffect(row)
    /\ UNCHANGED rerunVars

\* import_officers, up to the first row
StartOfficerImport ==
    /\ BeginRun("officer", "rows")
    /\ images_dict' = {}
    /\ last' = [op |-> "start"]
    /\ UNCHANGED <<storeVars, auxVars>>

\* _process_officer_csv_file: one iteration of the loop
OfficerRowStep(row) ==
    /\ phase = "rows" /\ kind = "officer"
    /\ row_num < 2 + MaxRows
    /\ Cardinality(officers) < MaxOfficers
    /\ LET r == ProcessOfficerCsvRow(row, row_num, OfficerStore)
           t == TallyOfficerRow(Tallies, r, row_num)
       IN  /\ officers' = r.st.officers
           /\ nextId' = r.st.nextId
           /\ success_count' = t.success_count
           /\ error_count' = t.error_count
           /\ skipped_count' = t.skipped_count
           /\ errors' = t.errors
           /\ last' = [op |-> "officer_row", row |-> row, rn |-> row_num,
                       outcome |-> Outcome(r)]
    /\ row_num' = row_num + 1
    /\ UNCHANGED <<users, members, products, kind, phase, products_data,
                   seen_handles, skipped_rows, images_dict, next_record,
                   shown, auxVars>>

\* the end of the file: _show_import_results
FinishRows ==
    /\ phase = "rows"
    /\ phase' = "done"
    /\ shown' = ShowImportResults(error_count, errors)
    /\ last' = [op |-> "finish"]
    /\ UNCHANGED <<storeVars, kind, row_num, success_count, error_count,
                   skipped_count, errors, products_data, seen_handles,
                   skipped_rows, images_dict, next_record, auxVars>>

\* import_products, up to the first row of parse_csv; fmt is the format
\* parse_csv detected and images the content of the optional ZIP
StartProductImport(fmt, images) ==
    /\ BeginRun(fmt, "parse")
    /\ images_dict' = images
    /\ last' = [op |-> "start"]
    /\ UNCHANGED <<storeVars, auxVars>>

\* _parse_standard_csv: one iteration of the loop
ParseStandardStep(row) ==
    /\ phase = "parse" /\ kind = "standard"
    /\ row_num < 2 + MaxRows
    /\ LET r == ParseStandardRow(row, row_num)
       IN  /\ products_data' = IF r.kept THEN Append(products_data, r.rec)
                               ELSE products_data
           /\ skipped_rows' = skipped_rows \o r.skipped
           /\ last' = [op |-> "parse_standard", row |-> row, rn |-> row_num,
                       outcome |-> IF r.kept THEN "kept" ELSE "dropped"]
    /\ row_num' = row_num + 1
    /\ UNCHANGED <<storeVars, kind, phase, success_count, error_count,
                   skipped_count, errors, seen_handles, images_dict,
                   next_record, shown, auxVars>>

\* _parse_shopify_csv: one iteration of the loop; an exception in the row
\* leaves the form with ValidationError
ParseShopifyStep(row) ==
    /\ phase = "parse" /\ kind = "shopify"
    /\ row_num < 2 + MaxRows
    /\ LET r == ParseShopifyRow(row, row_num, seen_handles)
       IN  /\ products_data' = IF r.kept THEN Append(products_data, r.rec)
                               ELSE products_data
           /\ seen_handles' = r.seen
           /\ phase' = IF r.raised THEN "aborted" ELSE phase
           /\ last' = [op |-> "parse_shopify", row |-> row, rn |-> row_num,
                       outcome |-> IF r.raised THEN "raised"
                                   ELSE IF r.kept THEN "kept" ELSE "dropped"]
    /\ row_num' = row_num + 1
    /\ UNCHANGED <<storeVars, kind, success_count, error_count,
                   skipped_count, errors, skipped_rows, images_dict,
                   next_record, shown, auxVars>>

\* the end of the file in either parser: no record at all is a
\* ValidationError, otherwise the view starts on products_data
ParseEnd ==
    /\ phase = "parse"
    /\ phase' = IF products_data = <<>> THEN "aborted" ELSE "store"
    /\ last' = [op |-> "parse_end"]
    /\ UNCHANGED <<storeVars, kind, row_num, success_count, error_count,
                   skipped_count, errors, products_data, seen_handles,
                   skipped_rows, images_dict, next_record, shown, auxVars>>

\* import_products: one iteration of the loop over products_data
StoreProductStep(download, save_ok) ==
    /\ phase = "store"
    /\ next_record <= Len(products_data)
    /\ \E finite_check \in BOOLEAN :
       LET r == ImportProduct(products_data[next_record], ProductStore,
                              images_dict, download, save_ok, finite_check)
       IN  /\ products' = r.st.products
           /\ nextId' = r.st.nextId
           /\ success_count' = IF r.created THEN success_count + 1
                               ELSE success_count
           /\ error_count' = IF r.raised THEN error_count + 1
                             ELSE error_count
           /\ last' = [op |-> "store_product",
                       rec |-> products_data[next_record],
                       outcome |-> IF r.raised THEN "raised"
                                   ELSE IF r.created THEN "created"
                                   ELSE "found"]
    /\ next_record' = next_record + 1
    /\ UNCHANGED <<users, members, officers, kind, phase, row_num,
                   skipped_count, errors, products_data, seen_handles,
                   skipped_rows, images_dict, shown, auxVars>>

\* import_products: after the loop, the summary message
FinishProductImport ==
    /\ phase = "store"
    /\ next_record > Len(products_data)
    /\ phase' = "done"
    /\ last' = [op |-> "finish"]
    /\ UNCHANGED <<storeVars, kind, row_num, success_count, error_count,
                   skipped_count, errors, products_data, seen_handles,
                   skipped_rows, images_dict, next_record, shown, auxVars>>

-----------------------------------------------------------------------------
(* Initial stores: what other parts of the portal may have created.        *)

Alice == [id |-> 1, username |-> "bob"]

ProfileA1 ==
    [id |-> 1, user |-> 1, member_number |-> "A1", status |-> "financial",
     initiation_date |-> <<>>, dues_current |-> TRUE,
     marked_for_removal_date |-> {}, removal_reason |-> ""]

OfficerJohn ==
    [id |-> 1, full_name |-> "John", position |-> "president",
     position_custom |-> "", display_order |-> "0", is_active |-> TRUE]

ProductMug(i) ==
    [id |-> i, name |-> "Mug", category |-> "drinkware", price |-> 900,
     inventory |-> 5, sizes |-> "", colors |-> "", image |-> "old.png"]

FirstFree(table) ==
    IF table = {} THEN 1
    ELSE 1 + (CHOOSE i \in {r.id : r \in table} :
                  \A r \in table : r.id <= i)

InitStore ==
    /\ \E populated \in BOOLEAN :
          /\ users = IF populated THEN {Alice} ELSE {}
          /\ members = IF populated THEN {ProfileA1} ELSE {}
          /\ officers = IF populated THEN {OfficerJohn} ELSE {}
          /\ products \in IF populated
                          THEN {{ProductMug(1)}, {ProductMug(1), ProductMug(2)}}
                          ELSE {{}}
    /\ nextId = [user |-> FirstFree(users), member |-> FirstFree(members),
                 officer |-> FirstFree(officers),
                 product |-> FirstFree(products)]

InitRun ==
    /\ kind = "none"
    /\ phase = "idle"
    /\ row_num = 2
    /\ success_count = 0
    /\ error_count = 0
    /\ skipped_count = 0
    /\ errors = <<>>
    /\ products_data = <<>>
    /\ seen_handles = {}
    /\ skipped_rows = <<>>
    /\ images_dict = {}
    /\ next_record = 1
    /\ shown = <<>>
    /\ last = [op |-> "init"]

InitClock ==
    /\ now = 0
    /\ advances = 0

InitSession ==
    /\ requests = <<>>
    /\ cart_items = {}

InitRerun ==
    /\ file = <<>>
    /\ snap = [users |-> {}, members |-> {}]
    /\ pass = 0

InitDetect ==
    /\ upload = [target |-> "none"]
    /\ detected = "pending"

Init ==
    /\ InitStore
    /\ InitRun
    /\ InitClock
    /\ InitSession
    /\ InitRerun
    /\ InitDetect

Next ==
    \/ StartMemberImport
    \/ \E row \in MemberRows : MemberRowStep(row)
    \/ StartOfficerImport
    \/ \E row \in OfficerRows : OfficerRowStep(row)
    \/ FinishRows
    \/ \E images \in {{}, {"mug.png"}} : StartProductImport("standard", images)
    \/ StartProductImport("shopify", {})
    \/ \E row \in StandardRows : ParseStandardStep(row)
    \/ \E row \in ShopifyRows : ParseShopifyStep(row)
    \/ ParseEnd
    \/ \E download \in {"200", "404", "timeout"}, save_ok \in BOOLEAN :
           StoreProductStep(download, save_ok)
    \/ FinishProductImport

Spec == Init /\ [][Next]_vars

-----------------------------------------------------------------------------
(* The same member file imported twice in succession.                      *)

\* bytes of an upload: the rows of the file, in order
MemberFiles == UNION {[1..n -> MemberRows] : n \in 0..MaxRows}

\* import_members on the file, up to the first row
RerunStart ==
    /\ pass < 2
    /\ BeginRun("member", "rows")
    /\ images_dict' = {}
    /\ last' = [op |-> "start"]
    /\ UNCHANGED <<storeVars, auxVars>>

\* _process_csv_file: the iteration for the next row of the file
RerunRowStep ==
    /\ phase = "rows" /\ kind = "member"
    /\ row_num - 1 <= Len(file)
    /\ MemberRowEffect(file[row_num - 1])
    /\ UNCHANGED rerunVars

\* the end of the file: the results are shown, the run is over
RerunFinish ==
    /\ phase = "rows" /\ kind = "member"
    /\ row_num - 1 > Len(file)
    /\ phase' = "done"
    /\ shown' = ShowImportResults(error_count, errors)
    /\ last' = [op |-> "finish"]
    /\ pass' = pass + 1
    /\ snap' = IF pass = 0 THEN [users |-> users, members |-> members]
               ELSE snap
    /\ UNCHANGED <<storeVars, kind, row_num, success_count, error_count,
                   skipped_count, errors, products_data, seen_handles,
                   skipped_rows, images_dict, next_record, file, clockVars,
                   sessionVars, detectVars>>

InitRerunFile ==
    /\ InitStore
    /\ Cardinality(products) <= 1
    /\ InitRun
    /\ InitClock
    /\ InitSession
    /\ InitDetect
    /\ file \in MemberFiles
    /\ snap = [users |-> {}, members |-> {}]
    /\ pass = 0

NextRerun ==
    \/ RerunStart
    \/ RerunRowStep
    \/ RerunFinish

SpecRerun == InitRerunFile /\ [][NextRerun]_vars

\* C2: after the second of two runs of member import on one file, the
\* users and the members are those the first run left: no record added,
\* none changed, and the second run imported nothing.
C2_SecondRunChangesNothing ==
    pass = 2 =>
        /\ [users |-> users, members |-> members] = snap
        /\ success_count = 0

\* both runs of a two-row file are over; the first created a member, the
\* second skipped its row
C2_Witness ==
    /\ pass = 2
    /\ Len(file) = 2
    /\ skipped_count >= 1
    /\ \E m \in members :
           /\ m # ProfileA1
           /\ \E i \in 1..Len(file) :
                  m.member_number = RowMemberNumber(file[i])

-----------------------------------------------------------------------------
(* Reconciliation with the HQ list, marking, and the removal sweep:        *)
(* src/pages/forms_sync.py, src/pages/forms.py, src/pages/models.py and    *)
(* src/pages/management/commands/remove_expired_members.py.  The view      *)
(* sync_members_with_hq, which pages/urls.py routes to, is not among the   *)
(* sources; SyncMember and SyncMembersWithHq follow its specification.     *)

\* timedelta(days=90)
GraceDays == 90
GracePeriod == GraceDays * TicksPerDay

\* _extract_member_numbers: the non-empty stripped cells of the column
ExtractMemberNumbers(cells) == {Strip(c) : c \in cells} \ {""}

\* variant: a sync that also turns an absent member non-financial
SyncMemberNonFinancial(m, numbers, t) ==
    IF m.member_number \in numbers
    THEN [m EXCEPT !.marked_for_removal_date = {}]
    ELSE [m EXCEPT !.marked_for_removal_date = {t},
                   !.status = "non_financial",
                   !.dues_current = FALSE]

\* the sync, for one stored member: absent from the list, it is marked
\* with the time of the sync; present, its marker is cleared
SyncMember(m, numbers, t) ==
    IF m.member_number \in numbers
    THEN [m EXCEPT !.marked_for_removal_date = {}]
    ELSE [m EXCEPT !.marked_for_removal_date = {t}]

\* MemberProfileForm.save with mark_non_financial checked
MarkNonFinancial(m, t) ==
    MemberSave([m EXCEPT !.status = "non_financial",
                         !.dues_current = FALSE,
                         !.marked_for_removal_date = {t},
                         !.removal_reason = "Manually marked"])

\* MemberProfile.days_until_removal at time t, for a marked member: the
\* whole days of the time left to the deadline (timedelta.days rounds
\* down), and 0 for a negative count
DaysUntilRemoval(m, t) ==
    LET d == CHOOSE x \in m.marked_for_removal_date : TRUE
        days_left == (d + GracePeriod - t) \div TicksPerDay
    IN  IF days_left < 0 THEN 0 ELSE days_left

\* variant: a deadline that has to be passed, not reached
ShouldBeRemovedAfter(m, t) ==
    /\ m.marked_for_removal_date # {}
    /\ \E d \in m.marked_for_removal_date : t > d + GracePeriod

\* MemberProfile.should_be_removed at time t
ShouldBeRemoved(m, t) ==
    /\ m.marked_for_removal_date # {}
    /\ \E d \in m.marked_for_removal_date : t >= d + GracePeriod

\* the members a sync touches and the clock leave the import run alone
UnchangedRun ==
    UNCHANGED <<officers, products, nextId, kind, phase, row_num,
                success_count, error_count, skipped_count, errors,
                products_data, seen_handles, skipped_rows, images_dict,
                next_record, shown, rerunVars, detectVars>>

\* sync_members_with_hq with the member-number column of the upload
SyncMembersWithHq(cells) ==
    LET numbers == ExtractMemberNumbers(cells)
    IN  /\ numbers # {}
        /\ members' = {SyncMember(m, numbers, now) : m \in members}
        /\ last' = [op |-> "sync", numbers |-> numbers,
                    cleared |-> {m.member_number : m \in
                        {x \in members :
                            /\ x.marked_for_removal_date # {}
                            /\ x.member_number \in numbers}}]
        /\ UNCHANGED <<users, clockVars, sessionVars>>
        /\ UnchangedRun

\* an officer saves the member form of m with the checkbox checked
ManualMark(m) ==
    /\ m \in members
    /\ members' = (members \ {m}) \cup {MarkNonFinancial(m, now)}
    /\ last' = [op |-> "mark", number |-> m.member_number]
    /\ UNCHANGED <<users, clockVars, sessionVars>>
    /\ UnchangedRun

\* remove_expired_members: Command.handle
RemoveExpiredMembers(dry_run) ==
    LET members_to_remove == {m \in members : ShouldBeRemoved(m, now)}
    IN  /\ members' = IF dry_run THEN members
                      ELSE members \ members_to_remove
        /\ users' = IF dry_run THEN users
                    ELSE {u \in users :
                            u.id \notin {m.user : m \in members_to_remove}}
        /\ last' = [op |-> "sweep", dry_run |-> dry_run,
                    found |-> {m.member_number : m \in members_to_remove},
                    markers |-> UNION {m.marked_for_removal_date :
                                         m \in members_to_remove}]
        /\ UNCHANGED <<clockVars, sessionVars>>
        /\ UnchangedRun

\* time passes between two requests
Advance(d) ==
    /\ advances < MaxAdvances
    /\ now' = now + d
    /\ advances' = advances + 1
    /\ last' = [op |-> "advance"]
    /\ UNCHANGED <<users, members, sessionVars>>
    /\ UnchangedRun

SyncProfile(i, number, status) ==
    [id |-> i, user |-> i, member_number |-> number, status |-> status,
     initiation_date |-> <<>>, dues_current |-> TRUE,
     marked_for_removal_date |-> {}, removal_reason |-> ""]

InitSync ==
    /\ users = {[id |-> 1, username |-> "member_A1"],
                [id |-> 2, username |-> "member_A2"],
                [id |-> 3, username |-> "member_A3"]}
    /\ members = {SyncProfile(1, "A1", "financial"),
                  SyncProfile(2, "A2", "financial_life_member"),
                  SyncProfile(3, "A3", "suspended")}
    /\ officers = {}
    /\ products = {}
    /\ nextId = [user |-> 4, member |-> 4, officer |-> 1, product |-> 1]
    /\ InitRun
    /\ InitClock
    /\ InitSession
    /\ InitRerun
    /\ InitDetect

\* the member-number columns of the uploaded HQ lists
HqColumns == (SUBSET {"A1", " A1 ", "A2", "A3", ""}) \ {{}}

\* the clock moves by one reading, or by one reading less than the grace
\* period
Jumps == {1, GracePeriod - 1}

NextSync ==
    \/ \E cells \in HqColumns : SyncMembersWithHq(cells)
    \/ \E m \in members : ManualMark(m)
    \/ \E dry_run \in BOOLEAN : RemoveExpiredMembers(dry_run)
    \/ \E d \in Jumps : Advance(d)

SpecSync == InitSync /\ [][NextSync]_vars

-----------------------------------------------------------------------------
(* The format a reader makes of a header row: parse_csv in                 *)
(* src/pages/forms_boutique.py, import_members and _validate_csv_row in    *)
(* src/pages/views.py, _find_member_column in src/pages/forms_sync.py.     *)
(* An upload is [target, format, bom, lines]: the reader it is sent to,    *)
(* the format it is written in, whether the bytes start with a byte-order  *)
(* mark, and its lines up to the header row, each a sequence of cells.     *)

\* the byte-order mark as the first character of a cell
WithBom(cell) == "<BOM>" \o cell

\* bytes.decode('utf-8'): the mark stays, as the first character
DecodeUtf8(u) ==
    IF u.bom
    THEN [bom |-> TRUE,
          lines |-> [u.lines EXCEPT ![1] = [@ EXCEPT ![1] = WithBom(@)]]]
    ELSE [bom |-> FALSE, lines |-> u.lines]

\* bytes.decode('utf-8-sig'): the mark is dropped
DecodeUtf8Sig(u) == [bom |-> FALSE, lines |-> u.lines]

\* if file_content.startswith('\ufeff'): file_content = file_content[1:]
RemoveBom(u, text) ==
    IF text.bom THEN [bom |-> FALSE, lines |-> u.lines] ELSE text

\* {f.lower().strip() for f in csv_reader.fieldnames}
FieldnamesLower(fieldnames) ==
    {Strip(Lower(fieldnames[i])) : i \in 1..Len(fieldnames)}

\* parse_csv: the parser it hands the file to, or the ValidationError
ParseCsvFormat(u) ==
    LET text == RemoveBom(u, DecodeUtf8(u))
        fieldnames_lower == FieldnamesLower(text.lines[1])
    IN  IF {"title", "variant price"} \subseteq fieldnames_lower
        THEN "storefront-export"
        ELSE IF {"name", "category", "price"} \subseteq fieldnames_lower
        THEN "generic"
        ELSE "MissingColumns"

\* 'x' in line, for a column name x and a line of the file
InLine(x, line) == \E i \in 1..Len(line) : line[i] = x

\* import_members: the index of the line taken for the header row
HeaderRowIndex(lines) ==
    LET hits == {i \in 1..Len(lines) :
                    \/ InLine("MAJOR_KEY", lines[i])
                    \/ (InLine("FIRST_NAME", lines[i])
                        /\ InLine("LAST_NAME", lines[i]))}
    IN  IF hits = {} THEN 1
        ELSE CHOOSE i \in hits : \A j \in hits : i <= j

\* import_members and _validate_csv_row: the column the member number of
\* a row is read from names the format
MemberImportFormat(u) ==
    LET text == DecodeUtf8Sig(u)
        fieldnames == text.lines[HeaderRowIndex(text.lines)]
        probe == [k \in {fieldnames[i] : i \in 1..Len(fieldnames)} |-> "x"]
    IN  IF Get(probe, "member_number") # "" THEN "generic"
        ELSE IF Get(probe, "Member#") # "" THEN "hq-export-variant-a"
        ELSE IF Get(probe, "MAJOR_KEY") # "" THEN "hq-export-variant-b"
        ELSE "MissingColumns"

\* _find_member_column: the first column with an accepted name, or None
FindMemberColumn(fieldnames) ==
    LET hits == {i \in 1..Len(fieldnames) :
                    Strip(Lower(fieldnames[i])) \in
                        {"member#", "member_number", "member number",
                         "major_key"}}
    IN  IF hits = {} THEN None
        ELSE fieldnames[CHOOSE i \in hits : \A j \in hits : i <= j]

\* parse_member_numbers: the list is read, or the ValidationError
SyncListFormat(u) ==
    LET text == DecodeUtf8Sig(u)
    IN  IF FindMemberColumn(text.lines[1]) # None THEN "hq-list"
        ELSE "MissingColumns"

DetectFormat(u) ==
    CASE u.target = "merchandise" -> ParseCsvFormat(u)
      [] u.target = "members"     -> MemberImportFormat(u)
      [] u.target = "sync"        -> SyncListFormat(u)

\* a reader takes the upload
Detect ==
    /\ detected = "pending"
    /\ detected' = DetectFormat(upload)
    /\ last' = [op |-> "detect"]
    /\ UNCHANGED <<storeVars, kind, phase, row_num, success_count,
                   error_count, skipped_count, errors, products_data,
                   seen_handles, skipped_rows, images_dict, next_record,
                   shown, clockVars, sessionVars, rerunVars, upload>>

\* str.title() of the lower-case column names, for the uploads
TitleCase(s) ==
    CASE s = "name"          -> "Name"
      [] s = "category"      -> "Category"
      [] s = "price"         -> "Price"
      [] s = "title"         -> "Title"
      [] s = "variant price" -> "Variant Price"
      [] s = "member#"       -> "Member#"
      [] s = "member_number" -> "Member_Number"
      [] s = "member number" -> "Member Number"
      [] s = "major_key"     -> "Major_Key"
      [] s = "first_name"    -> "First_Name"
      [] s = "last_name"     -> "Last_Name"
      [] s = "first name"    -> "First Name"
      [] s = "last name"     -> "Last Name"

\* a column name in lower case, in upper case, and capitalised
Casings(s) == {s, Upper(s), TitleCase(s)}

\* the header rows made of the names a, b, c in every letter case
Headers3(a, b, c) ==
    {<<x, y, z>> : x \in Casings(a), y \in Casings(b), z \in Casings(c)}

\* the first lines of an HQ export, before its header row
Decoration == <<"textbox1">>

Upload(target, format, bom, lines) ==
    [target |-> target, format |-> format, bom |-> bom, lines |-> lines]

\* every supported format, with the required column names only
Uploads ==
    UNION {
        {Upload("merchandise", "generic", bom, <<h>>) :
            h \in Headers3("name", "category", "price")}
        \cup
        {Upload("merchandise", "storefront-export", bom, <<<<x, y>>>>) :
            x \in Casings("title"), y \in Casings("variant price")}
        \cup
        {Upload("members", "generic", bom, <<h>>) :
            h \in Headers3("member_number", "first_name", "last_name")}
        \cup
        {Upload("members", "hq-export-variant-a", bom, <<h>>) :
            h \in Headers3("member#", "first name", "last name")}
        \cup
        {Upload("members", "hq-export-variant-b", bom, ls) :
            ls \in UNION {{<<h>>, <<Decoration, h>>} :
                h \in Headers3("major_key", "first_name", "last_name")}}
        \cup
        {Upload("sync", "hq-list", bom, <<<<x>>>>) :
            x \in UNION {Casings(a) : a \in {"member#", "member_number",
                                             "member number", "major_key"}}}
        : bom \in BOOLEAN}

InitUpload ==
    /\ InitStore
    /\ Cardinality(products) <= 1
    /\ InitRun
    /\ InitClock
    /\ InitSession
    /\ InitRerun
    /\ upload \in Uploads
    /\ detected = "pending"

SpecDetect == InitUpload /\ [][Detect]_vars

-----------------------------------------------------------------------------
(* Files whose header spells the column names in another letter case or    *)
(* with surrounding blanks.  The rows csv.DictReader yields for such a     *)
(* file carry the header's spelling as their keys.                         *)

\* a header cell as the file spells it
Spelled(how, k) ==
    CASE how = "exact"  -> k
      [] how = "upper"  -> Upper(k)
      [] how = "lower"  -> Lower(k)
      [] how = "padded" -> " " \o k \o " "

Spellings == {"exact", "upper", "lower", "padded"}

\* the row of a file whose header is spelled `how`
Respell(how, row) ==
    [k2 \in {Spelled(how, k) : k \in DOMAIN row} |->
        row[CHOOSE k \in DOMAIN row : Spelled(how, k) = k2]]

\* the column names the handlers read, in the spelling they read them
ExactAliases ==
    {"member_number", "first_name", "last_name", "full_name", "position",
     "name", "category", "price", "inventory", "Handle", "Title",
     "Variant Price"}

\* the spelling of a header cell that the handlers read
ExactAlias(k) ==
    IF \E a \in ExactAliases : Lower(a) = Lower(Strip(k))
    THEN CHOOSE a \in ExactAliases : Lower(a) = Lower(Strip(k))
    ELSE k

\* the row of the same file with the exact spelling of every column name
ExactRow(row) ==
    [a \in {ExactAlias(k) : k \in DOMAIN row} |->
        row[CHOOSE k \in DOMAIN row : ExactAlias(k) = a]]

SpelledMemberRows ==
    {Respell(how, [member_number |-> mn, first_name |-> "Bob",
                   last_name |-> "Lee"]) :
        how \in Spellings, mn \in {"A1", "LM7"}}

SpelledOfficerRows ==
    {Respell(how, [full_name |-> "John", position |-> ps]) :
        how \in Spellings, ps \in {"President", "Dean"}}

SpelledStandardRows ==
    {Respell(how, [name |-> n, category |-> "Drinkware",
                   price |-> <<"1", "2", ".", "5", "0">>,
                   inventory |-> <<"4", "0">>]) :
        how \in Spellings, n \in {"Mug", "Cap"}}

SpelledShopifyRows ==
    {Respell(how, ("Handle" :> h) @@ ("Title" :> "Mug")
                  @@ ("Variant Price" :> <<"1", "2", ".", "5", "0">>)) :
        how \in Spellings, h \in {"mug", "cap"}}

NextSpelled ==
    \/ StartMemberImport
    \/ \E row \in SpelledMemberRows : MemberRowStep(row)
    \/ StartOfficerImport
    \/ \E row \in SpelledOfficerRows : OfficerRowStep(row)
    \/ FinishRows
    \/ StartProductImport("standard", {})
    \/ StartProductImport("shopify", {})
    \/ \E row \in SpelledStandardRows : ParseStandardStep(row)
    \/ \E row \in SpelledShopifyRows : ParseShopifyStep(row)
    \/ ParseEnd
    \/ StoreProductStep("200", TRUE)
    \/ FinishProductImport

SpecSpelled == Init /\ [][NextSpelled]_vars

-----------------------------------------------------------------------------
(* Uploads whose header row holds none of the column names of a format.    *)
(* The upload carries its header row; the data rows are chosen line by     *)
(* line and keyed by that header, as csv.DictReader keys them.             *)

\* dict(zip(fieldnames, cells)) for a header row and the cells of a line
DictRow(fieldnames, cells) ==
    [k \in {fieldnames[i] : i \in 1..Len(fieldnames)} |->
        cells[CHOOSE i \in 1..Len(fieldnames) : fieldnames[i] = k]]

\* the header row the reader of the upload keys the rows by
UploadFieldnames(u) ==
    IF u.target = "members"
    THEN u.lines[HeaderRowIndex(u.lines)]
    ELSE u.lines[1]

required_fields == <<"name", "category", "price">>

\* [f for f in required_fields if f not in fieldnames_lower]
MissingFields(fieldnames) ==
    LET absent(f) == f \notin FieldnamesLower(fieldnames)
    IN  SelectSeq(required_fields, absent)

\* ValidationError('CSV must contain these columns: ... Found columns: ...')
MissingColumnsError(fieldnames) ==
    [msg |-> "CSV must contain these columns",
     missing |-> MissingFields(fieldnames), found |-> fieldnames]

MemberHeaders ==
    {<<"member_number", "first_name", "last_name">>,
     <<"id", "first_name", "last_name">>,
     <<"number", "first", "last">>}

ProductHeaders ==
    {<<"name", "category", "price">>,
     <<"name", "kind", "price">>,
     <<"item", "kind", "cost">>}

HeaderUploads ==
    {Upload("members", "generic", FALSE, <<h>>) : h \in MemberHeaders}
    \cup {Upload("merchandise", "generic", FALSE, <<h>>) : h \in ProductHeaders}

MemberLines == {<<mn, "Bob", "Lee">> : mn \in {"A1", "LM7"}}

ProductLines ==
    {<<n, "Drinkware", <<"1", "2", ".", "5", "0">>>> : n \in {"Mug", "Cap"}}

\* import_members up to the first row: the header row is located and the
\* rows are read, whatever the header holds
UploadMembers ==
    /\ upload.target = "members"
    /\ BeginRun("member", "rows")
    /\ images_dict' = {}
    /\ detected' = MemberImportFormat(upload)
    /\ last' = [op |-> "start"]
    /\ UNCHANGED <<storeVars, clockVars, sessionVars, rerunVars, upload>>

\* import_products up to the first row: parse_csv finds the columns of a
\* format and hands the rows to its parser
UploadProducts ==
    /\ upload.target = "merchandise"
    /\ ParseCsvFormat(upload) # "MissingColumns"
    /\ BeginRun(IF ParseCsvFormat(upload) = "generic" THEN "standard"
                ELSE "shopify", "parse")
    /\ images_dict' = {}
    /\ detected' = ParseCsvFormat(upload)
    /\ last' = [op |-> "start"]
    /\ UNCHANGED <<storeVars, clockVars, sessionVars, rerunVars, upload>>

\* import_products when parse_csv raises for the header row: the request
\* ends with the ValidationError
UploadProductsRaises ==
    /\ upload.target = "merchandise"
    /\ ParseCsvFormat(upload) = "MissingColumns"
    /\ BeginRun("standard", "aborted")
    /\ images_dict' = {}
    /\ detected' = "MissingColumns"
    /\ last' = [op |-> "parse_csv", outcome |-> "raised",
                error |-> MissingColumnsError(upload.lines[1])]
    /\ UNCHANGED <<storeVars, clockVars, sessionVars, rerunVars, upload>>

InitHeader ==
    /\ InitStore
    /\ InitRun
    /\ InitClock
    /\ InitSession
    /\ InitRerun
    /\ upload \in HeaderUploads
    /\ detected = "pending"

NextHeader ==
    \/ UploadMembers
    \/ \E cells \in MemberLines :
          /\ upload.target = "members"
          /\ MemberRowStep(DictRow(UploadFieldnames(upload), cells))
    \/ FinishRows
    \/ UploadProducts
    \/ UploadProductsRaises
    \/ \E cells \in ProductLines :
          /\ upload.target = "merchandise"
          /\ ParseStandardStep(DictRow(UploadFieldnames(upload), cells))
    \/ ParseEnd
    \/ StoreProductStep("200", TRUE)
    \/ FinishProductImport

SpecHeader == InitHeader /\ [][NextHeader]_vars

-----------------------------------------------------------------------------
(* Merchandise files whose numeric and category cells vary: prices with a  *)
(* currency symbol and a thousands separator, text, negative numbers,      *)
(* 'nan', blank cells, unknown categories.                                 *)

Price1234 == <<"$", "1", ",", "2", "3", "4", ".", "5", "0">>
Price12   == <<"1", "2", ".", "5", "0">>

PriceCells ==
    {Price1234, Price12, <<"a", "b", "c">>, <<"-", "5">>, <<"n", "a", "n">>,
     <<>>}

QtyCells == {<<"4", "0">>, <<"-", "3">>, <<"4", ".", "5">>}

GoodsStandardRow(name, category, price, inventory) ==
    [name |-> name, category |-> category, price |-> price,
     inventory |-> inventory]

\* rows of a generic file: one cell of the first row varies at a time
GoodsStandardRows ==
    {GoodsStandardRow("Cap", "Drinkware", pr, <<"4", "0">>) :
        pr \in PriceCells}
    \cup {GoodsStandardRow("Cap", "Drinkware", Price12, q) : q \in QtyCells}
    \cup {GoodsStandardRow("Cap", c, Price12, <<"4", "0">>) :
            c \in {"Toys", ""}}
    \cup {GoodsStandardRow("Hat", "Drinkware", Price1234, <<"4", "0">>)}

GoodsShopifyRow(handle, title, type, price, qty, ovalue) ==
    ("Handle" :> handle) @@ ("Title" :> title) @@ ("Type" :> type)
    @@ ("Variant Price" :> price) @@ ("Variant Inventory Qty" :> qty)
    @@ ("Option1 Name" :> "Size") @@ ("Option1 Value" :> ovalue)

\* rows of a storefront export: variants of the handle cap, one cell
\* varying at a time, and a row of another handle
GoodsShopifyRows ==
    {GoodsShopifyRow("cap", "Cap", "Mugs", pr, <<"4", "0">>, "S") :
        pr \in PriceCells}
    \cup {GoodsShopifyRow("cap", "Cap", "Mugs", Price12, q, "S") :
            q \in QtyCells}
    \cup {GoodsShopifyRow("cap", "Cap", ty, Price12, <<"4", "0">>, "S") :
            ty \in {"Toys", ""}}
    \cup {GoodsShopifyRow("cap", "Cap", "Mugs", Price12, <<"4", "0">>, "M")}
    \cup {GoodsShopifyRow("hat", "Hat", "Mugs", Price12, <<"4", "0">>, "M")}

NextGoods ==
    \/ StartProductImport("standard", {})
    \/ StartProductImport("shopify", {})
    \/ \E row \in GoodsStandardRows : ParseStandardStep(row)
    \/ \E row \in GoodsShopifyRows : ParseShopifyStep(row)
    \/ ParseEnd
    \/ StoreProductStep("200", TRUE)
    \/ FinishProductImport

InitGoods == Init /\ Cardinality(products) <= 1

SpecGoods == InitGoods /\ [][NextGoods]_vars

-----------------------------------------------------------------------------
(* One generic merchandise file, imported once into the initial store.     *)

\* rows of a generic file: well-formed rows of three names, with another
\* category, price or quantity, and rows with a blank name, a price that
\* is no number, a category in capitals
GenericRows ==
    {GoodsStandardRow(n, "drinkware", Price12, <<"4", "0">>) :
        n \in {"Cap", "Hat", "Mug"}}
    \cup {GoodsStandardRow("Cap", "apparel", Price12, <<"4", "0">>),
          GoodsStandardRow("Cap", "drinkware", <<"7">>, <<"4", "0">>),
          GoodsStandardRow("Cap", "drinkware", Price12, <<"0">>),
          GoodsStandardRow("", "drinkware", Price12, <<"4", "0">>),
          GoodsStandardRow("Cap", "drinkware", <<"a", "b", "c">>, <<"4", "0">>),
          GoodsStandardRow("Cap", "Drinkware", Price12, <<"4", "0">>)}

GenericFiles == UNION {[1..n -> GenericRows] : n \in 0..MaxRows}

\* import_products on the file, up to the first row
GenericStart ==
    /\ phase = "idle"
    /\ StartProductImport("standard", {})

\* _parse_standard_csv: the iteration for the next row of the file
GenericRowStep ==
    /\ row_num - 1 <= Len(file)
    /\ ParseStandardStep(file[row_num - 1])

\* the end of the file
GenericParseEnd ==
    /\ row_num - 1 > Len(file)
    /\ ParseEnd

InitGeneric ==
    /\ InitStore
    /\ InitRun
    /\ InitClock
    /\ InitSession
    /\ InitDetect
    /\ file \in GenericFiles
    /\ snap = [users |-> users, members |-> members, products |-> products]
    /\ pass = 0

NextGeneric ==
    \/ GenericStart
    \/ GenericRowStep
    \/ GenericParseEnd
    \/ StoreProductStep("200", TRUE)
    \/ FinishProductImport

SpecGeneric == InitGeneric /\ [][NextGeneric]_vars

-----------------------------------------------------------------------------
(* Member files with and without the standing columns status and           *)
(* dues_current, imported once into the initial store.                     *)

\* a row of a file without the standing columns
PlainMemberRow(mn) ==
    [member_number |-> mn, first_name |-> "Bob", last_name |-> "Lee"]

\* a row of a file with the standing columns
StandingMemberRow(mn, status, dues) ==
    [member_number |-> mn, first_name |-> "Bob", last_name |-> "Lee",
     status |-> status, dues_current |-> dues]

StandingRows ==
    {PlainMemberRow(mn) : mn \in {"A1", "LM7", "lm7"}}
    \cup {StandingMemberRow(mn, status, "") :
            mn \in {"A1", "LM7", "lm7"},
            status \in {"", "suspended", "non_financial", "Alumni"}}
    \cup {StandingMemberRow("A1", "", dues) : dues \in {"no", "yes"}}

\* import_members, once
StandingStart ==
    /\ phase = "idle"
    /\ StartMemberImport

NextStanding ==
    \/ StandingStart
    \/ \E row \in StandingRows : MemberRowStep(row)
    \/ FinishRows

SpecStanding == Init /\ [][NextStanding]_vars

-----------------------------------------------------------------------------
(* Generic merchandise files whose rows name an image, with an archive     *)
(* that holds the file, holds another file, or is not uploaded.            *)

ImageRows ==
    {StandardRow(n, "mug.png", "") : n \in {"Mug", "Cap"}}
    \cup {StandardRow(n, "", "http://x/mug") : n \in {"Mug", "Cap"}}
    \cup {StandardRow(n, "", "") : n \in {"Mug", "Cap"}}

Archives == {{}, {"mug.png"}, {"cap.png"}}

NextImages ==
    \/ \E images \in Archives : StartProductImport("standard", images)
    \/ \E row \in ImageRows : ParseStandardStep(row)
    \/ ParseEnd
    \/ \E download \in {"200", "404", "timeout"}, save_ok \in BOOLEAN :
           StoreProductStep(download, save_ok)
    \/ FinishProductImport

SpecImages == InitGoods /\ [][NextImages]_vars

-----------------------------------------------------------------------------
(* Saving a member record: src/pages/forms.py, MemberProfileForm.save, and *)
(* src/pages/views.py, stripe_webhook.  Both end in MemberProfile.save().  *)

\* MemberProfile.STATUS_CHOICES
STATUS_CHOICES == {"financial", "non_financial", "financial_life_member",
                   "non_financial_life_member", "new_member", "suspended"}

\* a save of the record b in place of the stored member m
SaveMember(m, b, op) ==
    /\ members' = (members \ {m}) \cup {MemberSave(b)}
    /\ last' = [op |-> op, number |-> m.member_number, before |-> b]
    /\ UNCHANGED <<users, clockVars, sessionVars>>
    /\ UnchangedRun

\* stripe_webhook, payment_intent.succeeded: dues_current is whether the
\* member has no payment left pending
StripeWebhook(m, pending) ==
    /\ m \in members
    /\ SaveMember(m, [m EXCEPT !.dues_current = ~pending], "webhook")

\* MemberProfileForm.save with the status and dues_current of the form
SaveMemberForm(m, status, dues_current, mark_non_financial) ==
    /\ m \in members
    /\ LET edited == [m EXCEPT !.status = status,
                               !.dues_current = dues_current]
       IN  SaveMember(m, IF mark_non_financial
                         THEN [edited EXCEPT
                                 !.status = "non_financial",
                                 !.dues_current = FALSE,
                                 !.marked_for_removal_date = {now},
                                 !.removal_reason = "Manually marked"]
                         ELSE edited, "form")

NextSave ==
    \/ \E m \in members, pending \in BOOLEAN : StripeWebhook(m, pending)
    \/ \E m \in members, status \in STATUS_CHOICES,
          dues_current \in BOOLEAN, mark_non_financial \in BOOLEAN :
           SaveMemberForm(m, status, dues_current, mark_non_financial)

InitSave ==
    /\ users = {[id |-> 1, username |-> "member_A1"],
                [id |-> 3, username |-> "member_A3"]}
    /\ members = {SyncProfile(1, "A1", "financial"),
                  SyncProfile(3, "A3", "suspended")}
    /\ officers = {}
    /\ products = {}
    /\ nextId = [user |-> 4, member |-> 4, officer |-> 1, product |-> 1]
    /\ InitRun
    /\ InitClock
    /\ InitSession
    /\ InitRerun
    /\ InitDetect

SpecSave == InitSave /\ [][NextSave]_vars

-----------------------------------------------------------------------------
(* The shopping cart of one signed-in user: src/pages/views.py,            *)
(* add_to_cart and update_cart_item.  A cart item is [product, size,       *)
(* color, quantity], product being the id of the product; the three first  *)
(* fields are unique together within the cart.                             *)

\* the item of the cart for this product, size and color, if any
CartItemOf(product, size, color) ==
    {i \in cart_items : /\ i.product = product.id
                        /\ i.size = size /\ i.color = color}

\* add_to_cart, POST with quantity, size and color
AddToCart(product, quantity, size, color) ==
    /\ product \in products
    /\ \A i \in CartItemOf(product, size, color) :
           i.quantity + quantity <= MaxQuantity
    /\ LET found == CartItemOf(product, size, color)
           valid == quantity > 0 /\ quantity <= product.inventory
       IN  /\ cart_items' =
                 IF ~valid THEN cart_items
                 ELSE IF found = {}
                 THEN cart_items \cup {[product |-> product.id, size |-> size,
                                        color |-> color,
                                        quantity |-> quantity]}
                 ELSE (cart_items \ found)
                      \cup {[i EXCEPT !.quantity = @ + quantity] : i \in found}
           /\ last' = [op |-> "add_to_cart", product |-> product.id,
                       quantity |-> quantity,
                       outcome |-> IF ~valid THEN "invalid"
                                   ELSE IF found = {} THEN "created"
                                   ELSE "added"]
    /\ UNCHANGED <<storeVars, runVars, clockVars, rerunVars, detectVars,
                   requests>>

\* update_cart_item, POST with quantity
UpdateCartItem(cart_item, quantity) ==
    /\ cart_item \in cart_items
    /\ LET product == CHOOSE p \in products : p.id = cart_item.product
       IN  /\ cart_items' =
                 IF quantity > 0
                 THEN IF quantity <= product.inventory
                      THEN (cart_items \ {cart_item})
                           \cup {[cart_item EXCEPT !.quantity = quantity]}
                      ELSE cart_items
                 ELSE cart_items \ {cart_item}
           /\ last' = [op |-> "update_cart_item",
                       product |-> cart_item.product,
                       quantity |-> quantity,
                       outcome |-> IF quantity <= 0 THEN "deleted"
                                   ELSE IF quantity <= product.inventory
                                   THEN "updated" ELSE "insufficient"]
    /\ UNCHANGED <<storeVars, runVars, clockVars, rerunVars, detectVars,
                   requests>>

\* the quantities of the POSTs: none, negative, up to and above the
\* inventory of the stored products
Quantities == -1 .. 6

InitCart ==
    /\ Init
    /\ Cardinality(products) = 1

NextCart ==
    \/ \E product \in products, quantity \in Quantities, size \in {"", "S"} :
           AddToCart(product, quantity, size, "")
    \/ \E cart_item \in cart_items, quantity \in Quantities :
           UpdateCartItem(cart_item, quantity)

SpecCart == InitCart /\ [][NextCart]_vars

-----------------------------------------------------------------------------
(* Two import requests served at the same time, each with one row for the  *)
(* same identifier.  The views take no lock and open no transaction: the   *)
(* lookup of a row and the insert that follows it are separate statements, *)
(* and statements of the two requests interleave.                          *)

\* a request before its lookup: the row it carries
Request(k, row) == [kind |-> k, row |-> row, pc |-> "lookup",
                    outcome |-> "pending"]

RaceMemberRows ==
    {MemberRow("LM7", "Bob", "Lee", un, <<>>, "") : un \in {"", "bob7", "lee7"}}

RaceProductRows ==
    {GoodsStandardRow("Cap", "drinkware", pr, <<"4", "0">>) :
        pr \in {Price12, <<"7">>}}

RaceRequests ==
    {<<Request("member", a), Request("member", b)>> :
        a \in RaceMemberRows, b \in RaceMemberRows}
    \cup {<<Request("product", a), Request("product", b)>> :
            a \in RaceProductRows, b \in RaceProductRows}

\* the lookup of request r: _validate_csv_row for a member row, the get of
\* get_or_create for a product record
RaceLookup(r) ==
    /\ r \in DOMAIN requests
    /\ requests[r].pc = "lookup"
    /\ LET q == requests[r]
           v == ValidateCsvRow(q.row, 2, members, users)
           same == SameName(products, ParseStandardRow(q.row, 2).rec.name)
           out == IF q.kind = "member"
                  THEN IF v.should_skip THEN "skipped"
                       ELSE IF v.errors # <<>> THEN "error" ELSE "pending"
                  ELSE IF same = {} THEN "pending"
                       ELSE IF Cardinality(same) > 1 THEN "raised"
                       ELSE "found"
       IN  requests' = [requests EXCEPT
                          ![r].outcome = out,
                          ![r].pc = IF out = "pending" THEN "create"
                                    ELSE "done"]
    /\ last' = [op |-> "race_lookup", request |-> r]
    /\ UNCHANGED <<storeVars, runVars, clockVars, rerunVars, detectVars,
                   cart_items>>

\* the insert of a member request: _create_member_from_row, where the
\* unique columns of the tables reject a second user name or number
RaceCreateMember(r) ==
    /\ r \in DOMAIN requests
    /\ requests[r].pc = "create" /\ requests[r].kind = "member"
    /\ LET q == requests[r]
           c == CreateMemberFromRow(q.row, RowUsername(q.row),
                                    RowMemberNumber(q.row), <<>>, MemberStore)
       IN  /\ users' = c.st.users
           /\ members' = c.st.members
           /\ nextId' = c.st.nextId
           /\ requests' = [requests EXCEPT
                             ![r].pc = "done",
                             ![r].outcome = IF c.raised THEN "raised"
                                            ELSE "created"]
    /\ last' = [op |-> "race_create", request |-> r]
    /\ UNCHANGED <<officers, products, runVars, clockVars, rerunVars,
                   detectVars, cart_items>>

\* the insert of a product request: the create of get_or_create; the name
\* column of the product table is not unique
RaceCreateProduct(r) ==
    /\ r \in DOMAIN requests
    /\ requests[r].pc = "create" /\ requests[r].kind = "product"
    /\ LET pd == ParseStandardRow(requests[r].row, 2).rec
       IN  products' = products \cup
              {[id |-> nextId["product"], name |-> pd.name,
                category |-> pd.category, price |-> ToCents(pd.price),
                inventory |-> pd.inventory, sizes |-> pd.sizes,
                colors |-> pd.colors, image |-> ""]}
    /\ nextId' = [nextId EXCEPT !["product"] = @ + 1]
    /\ requests' = [requests EXCEPT ![r].pc = "done",
                                    ![r].outcome = "created"]
    /\ last' = [op |-> "race_create", request |-> r]
    /\ UNCHANGED <<users, members, officers, runVars, clockVars, rerunVars,
                   detectVars, cart_items>>

InitRace ==
    /\ InitStore
    /\ InitRun
    /\ InitClock
    /\ InitRerun
    /\ InitDetect
    /\ requests \in RaceRequests
    /\ cart_items = {}

NextRace ==
    \/ \E r \in {1, 2} : RaceLookup(r)
    \/ \E r \in {1, 2} : RaceCreateMember(r)
    \/ \E r \in {1, 2} : RaceCreateProduct(r)

SpecRace == InitRace /\ [][NextRace]_vars

-----------------------------------------------------------------------------
(* Properties of the imports, checked under Spec.                          *)

\* the records of table' that table did not hold
Created(old, new) == {r \in new : r.id \notin {q.id : q \in old}}

\* C1: no import step creates a member whose member number an existing
\* member already has, and none creates a product whose name an existing
\* product already has; such a row leaves the existing record in place.
C1_NoDuplicateCreated ==
    [][ /\ \A m \in Created(members, members') :
               ~MemberNumberExists(members, m.member_number)
        /\ \A p \in Created(products, products') :
               ~\E q \in products : q.name = p.name
        /\ Cardinality(Created(members, members')) <= 1
        /\ Cardinality(Created(products, products')) <= 1 ]_vars

\* a file whose second row repeats the number of its first row: one
\* member created, the repetition skipped
C1_Witness ==
    /\ last.op = "member_row" /\ last.rn = 3
    /\ last.outcome = "skipped"
    /\ success_count = 1
    /\ \E m \in members : m.member_number = RowMemberNumber(last.row)

\* a product record whose name is in the table was stored and the table
\* did not grow
C1_WitnessProduct ==
    /\ last.op = "store_product" /\ last.outcome = "found"
    /\ Cardinality({p \in products : p.name = last.rec.name}) = 1

\* C3 as the specification states it: an officer row never creates an
\* active officer with the full name and the position of an officer that
\* is already active.
C3_NoSecondActiveOfficer ==
    [][ \A o \in Created(officers, officers') :
            ~\E q \in officers :
                /\ q.is_active
                /\ q.full_name = o.full_name
                /\ q.position = o.position
                /\ q.position_custom = o.position_custom ]_vars

RowProductName(row) == GetStrip(RowLower(row), "name")
RowTitle(row) == GetStrip(row, "Title")

C5_WitnessMember ==
    /\ last.op = "member_row" /\ last.outcome = "error"
    /\ RowMemberNumber(last.row) = ""
    /\ error_count = 1 /\ skipped_count = 0

\* the date cell of the row is not blank and matches no format
BadDateCell(row) ==
    /\ "initiation_date" \in DOMAIN row
    /\ row.initiation_date \notin {<<>>, NoDate}
    /\ ParseInitiationDate(row.initiation_date, 0, "").error # <<>>

\* C6 as the specification states it: a member row that is valid but for
\* an initiation date matching no format has its member stored, adds one
\* error string naming the row, and raises the error count by one.
C6_BadDateCountsAsError ==
    [][ (/\ last'.op = "member_row"
         /\ BadDateCell(last'.row)
         /\ LET v == ValidateCsvRow(last'.row, row_num, members, users)
            IN  ~v.raised /\ ~v.should_skip /\ v.errors = <<>>
         /\ Get(last'.row, "dues_current") # None)
        => /\ \E m \in Created(members, members') :
                  /\ m.member_number = RowMemberNumber(last'.row)
                  /\ m.initiation_date = <<>>
           /\ Len(errors') = Len(errors) + 1
           /\ errors'[Len(errors')].row = row_num
           /\ error_count' = error_count + 1 ]_vars

\* C7 as the specification states it: whatever happens to a row, the run
\* goes on with the next row; no row ends the batch.
C7_RowFailureNeverAborts ==
    last.op \in {"member_row", "officer_row", "parse_standard",
                 "parse_shopify", "store_product"}
    => phase # "aborted"

-----------------------------------------------------------------------------
(* Properties of the reconciliation and of the sweep, checked under        *)
(* SpecSync.                                                               *)

MarkerExpired(m, t) ==
    \E d \in m.marked_for_removal_date : t - d >= GraceDays * TicksPerDay

\* C9: a sweep that is no dry run deletes exactly the members whose marker
\* is at least 90 days old, with their users; unmarked members and members
\* inside the window stay.
C9_SweepDeletesExactlyExpired ==
    [][ (last'.op = "sweep" /\ ~last'.dry_run) =>
          /\ members' = {m \in members : ~MarkerExpired(m, now)}
          /\ users' = {u \in users :
                         \A m \in members :
                             MarkerExpired(m, now) => m.user # u.id} ]_vars

\* a sweep deleted a member whose marker was exactly 90 days old and kept
\* a member whose marker was one clock reading younger
C9_Witness ==
    /\ last.op = "sweep" /\ ~last.dry_run
    /\ now - GracePeriod \in last.markers
    /\ Cardinality(members) < 3
    /\ \E m \in members : m.marked_for_removal_date = {now - GracePeriod + 1}
    /\ \E m \in members : m.marked_for_removal_date = {}

-----------------------------------------------------------------------------
(* Property of the format detection, checked under SpecDetect.             *)

\* C10 as the specification states it: a header row with the required
\* column names of a format only, in any letter case, with or without a
\* byte-order mark, is taken for that format and for no other.
C10_FormatDetected ==
    detected # "pending" => detected = upload.format

\* what holds of the two readers that lower-case the header: the
\* merchandise form and the HQ list form take every such header for its
\* format
C10_LowerCasingReaders ==
    (detected # "pending" /\ upload.target \in {"merchandise", "sync"})
    => detected = upload.format

-----------------------------------------------------------------------------
(* Property of the column names, checked under SpecSpelled.                *)

\* C11 as the specification states it: a row of a file whose header
\* spells the column names in another letter case, or with blanks around
\* them, is handled as the row of the file with the exact spelling: the
\* same records, the same counts.
C11_SpellingIrrelevant ==
    [][ /\ last'.op = "member_row" =>
             LET r == ProcessCsvRow(ExactRow(last'.row), row_num, MemberStore)
                 t == TallyRow(Tallies, r, row_num)
             IN  /\ members' = r.st.members
                 /\ users' = r.st.users
                 /\ success_count' = t.success_count
                 /\ error_count' = t.error_count
                 /\ skipped_count' = t.skipped_count
        /\ last'.op = "officer_row" =>
             LET r == ProcessOfficerCsvRow(ExactRow(last'.row), row_num,
                                           OfficerStore)
                 t == TallyOfficerRow(Tallies, r, row_num)
             IN  /\ officers' = r.st.officers
                 /\ success_count' = t.success_count
                 /\ error_count' = t.error_count
                 /\ skipped_count' = t.skipped_count
        /\ last'.op = "parse_standard" =>
             LET r == ParseStandardRow(ExactRow(last'.row), row_num)
             IN  products_data' = IF r.kept THEN Append(products_data, r.rec)
                                  ELSE products_data
        /\ last'.op = "parse_shopify" =>
             LET r == ParseShopifyRow(ExactRow(last'.row), row_num,
                                      seen_handles)
             IN  products_data' = IF r.kept THEN Append(products_data, r.rec)
                                  ELSE products_data ]_vars

\* what holds of the generic merchandise parser, which lower-cases and
\* trims the column names of every row
C11_GenericParserSpelling ==
    [][ last'.op = "parse_standard" =>
             LET r == ParseStandardRow(ExactRow(last'.row), row_num)
             IN  products_data' = IF r.kept THEN Append(products_data, r.rec)
                                  ELSE products_data ]_vars

-----------------------------------------------------------------------------
(* Property of the header row, checked under SpecHeader.                   *)

\* the required columns of the upload's reader that no header cell names,
\* in any letter case
Unresolved(u) ==
    LET cells == {Lower(Strip(u.lines[1][i])) : i \in 1..Len(u.lines[1])}
    IN  IF u.target = "members" THEN {"member_number"} \ cells
        ELSE {"name", "category", "price"} \ cells

\* C12 as the specification states it: when the header row of the upload
\* resolves no format's required columns, the only step the run takes is
\* to fail with the missing-columns error, which names the unresolved
\* fields and the header cells found; no row is processed and no user,
\* member or product is created.
C12_UnknownHeaderFailsFirst ==
    [][ Unresolved(upload) # {} =>
          /\ last'.op = "parse_csv"
          /\ last'.outcome = "raised"
          /\ {last'.error.missing[i] : i \in 1..Len(last'.error.missing)}
                = Unresolved(upload)
          /\ last'.error.found = upload.lines[1]
          /\ storeVars' = storeVars ]_vars

\* what holds of merchandise import, whose form checks the header row
C12_MerchandiseHeaderChecked ==
    [][ (upload.target = "merchandise" /\ Unresolved(upload) # {}) =>
          /\ last'.op = "parse_csv"
          /\ last'.outcome = "raised"
          /\ {last'.error.missing[i] : i \in 1..Len(last'.error.missing)}
                = Unresolved(upload)
          /\ last'.error.found = upload.lines[1]
          /\ storeVars' = storeVars ]_vars

-----------------------------------------------------------------------------
(* Properties of the merchandise parsers, checked under SpecGoods.         *)

\* the price cell of a merchandise row, in either format
PriceCellOf(row) ==
    IF "price" \in DOMAIN row THEN row.price ELSE row["Variant Price"]

\* the record a parse step appended
Appended(data) == data[Len(data)]

\* the amount 1234.50
Amount1234 == [ok |-> TRUE, neg |-> FALSE, mant |-> 123450, exp |-> 2]

\* C13 as the specification states it: a merchandise row, in either
\* format, whose price cell is "$1,234.50" is kept with the price
\* 1234.50, and a row whose price cell is no number ("abc") is kept with
\* the price 0.
C13_PriceCleaned ==
    [][ (last'.op \in {"parse_standard", "parse_shopify"}
         /\ (last'.op = "parse_shopify" => last'.row["Handle"] \notin seen_handles))
        => /\ PriceCellOf(last'.row) = Price1234 =>
                /\ last'.outcome = "kept"
                /\ Appended(products_data').price = Amount1234
           /\ PriceCellOf(last'.row) = <<"a", "b", "c">> =>
                /\ last'.outcome = "kept"
                /\ Appended(products_data').price = Zero ]_vars

\* what holds of the generic parser, which removes '$' and ',' before it
\* reads the number
C13_GenericPriceCleaned ==
    [][ last'.op = "parse_standard"
        => /\ PriceCellOf(last'.row) = Price1234 =>
                /\ last'.outcome = "kept"
                /\ Appended(products_data').price = Amount1234
           /\ PriceCellOf(last'.row) = <<"a", "b", "c">> =>
                /\ last'.outcome = "kept"
                /\ Appended(products_data').price = Zero ]_vars

\* a parsed number that is at or above zero
AtLeastZero(n) == n.ok /\ n.exp >= 0 /\ (n.neg => n.mant = 0)

\* C14 as the specification states it: every record the parsers produce,
\* in either format and whatever the cells hold, has a price of at least
\* zero, an inventory of at least zero and one of the four categories.
C14_RecordsInRange ==
    \A i \in 1..Len(products_data) :
        /\ AtLeastZero(products_data[i].price)
        /\ products_data[i].inventory >= 0
        /\ products_data[i].category \in
              {"apparel", "accessories", "drinkware", "other"}

\* what holds of every record: inventory and category are in range, and
\* the price is at least zero or not a number
C14_RecordsInRangeOrNaN ==
    \A i \in 1..Len(products_data) :
        /\ AtLeastZero(products_data[i].price)
           \/ products_data[i].price = NaN
        /\ products_data[i].inventory >= 0
        /\ products_data[i].category \in
              {"apparel", "accessories", "drinkware", "other"}

-----------------------------------------------------------------------------
(* Properties of the storefront rows of one handle, checked under Spec.    *)

\* the record of a storefront row of the uploads: its title, the category
\* of the type Mugs, the price 12.50, the quantity 3, its own size
RecordOfRow(row) ==
    [name |-> row["Title"], category |-> "drinkware",
     price |-> [ok |-> TRUE, neg |-> FALSE, mant |-> 1250, exp |-> 2],
     inventory |-> 3, sizes |-> row["Option1 Value"], colors |-> "",
     image_url |-> "", image_path |-> ""]

C15_WitnessCreated ==
    /\ last.op = "store_product"
    /\ kind = "shopify"
    /\ last.outcome = "created"
    /\ row_num = 4

-----------------------------------------------------------------------------
(* Property of a well-formed generic file, checked under SpecGeneric.      *)

\* the amount a well-formed price cell of the uploads writes, in cents
CentsOf(cell) == CASE cell = Price12 -> 1250 [] cell = <<"7">> -> 700

\* the quantity a well-formed inventory cell of the uploads writes
QtyOf(cell) == CASE cell = <<"4", "0">> -> 40 [] cell = <<"0">> -> 0

\* a row with a name, one of the four categories, a plain price and a
\* plain quantity
WellFormed(row) ==
    /\ row.name \in {"Cap", "Hat", "Mug"}
    /\ row.category \in {"apparel", "accessories", "drinkware", "other"}
    /\ row.price \in {Price12, <<"7">>}
    /\ row.inventory \in {<<"4", "0">>, <<"0">>}

\* n >= 1 well-formed rows, names pairwise distinct and not in the store
WellFormedFile ==
    /\ Len(file) >= 1
    /\ \A i \in 1..Len(file) : WellFormed(file[i])
    /\ \A i, j \in 1..Len(file) : file[i].name = file[j].name => i = j
    /\ \A i \in 1..Len(file) :
          ~ \E q \in snap.products : q.name = file[i].name

\* C16: after the import of a generic file of n well-formed rows with
\* pairwise distinct names, none of them in the store, the store holds
\* exactly n new products, one for each row with the name, category,
\* price and inventory the row writes, and the run counted n created
\* products, no error and no skipped row.
C16_WellFormedFileCreatesAll ==
    (phase = "done" /\ WellFormedFile) =>
        /\ success_count = Len(file)
        /\ error_count = 0
        /\ skipped_rows = <<>>
        /\ snap.products \subseteq products
        /\ Cardinality(products \ snap.products) = Len(file)
        /\ \A i \in 1..Len(file) :
              \E p \in products \ snap.products :
                 /\ p.name = file[i].name
                 /\ p.category = file[i].category
                 /\ p.price = CentsOf(file[i].price)
                 /\ p.inventory = QtyOf(file[i].inventory)

\* a file of two well-formed rows was imported: two products created
C16_Witness ==
    /\ phase = "done"
    /\ WellFormedFile
    /\ Len(file) = 2
    /\ success_count = 2

-----------------------------------------------------------------------------
(* Properties of the standing of a created member, checked under           *)
(* SpecStanding.                                                           *)

\* the status cell of a member row, blank when the file has no such column
StatusCell(row) == IF "status" \in DOMAIN row THEN row.status ELSE ""

\* the member numbers of the uploads that contain LM in some letter case
ContainsLM(mn) == mn \in {"LM7", "lm7"}

\* C17: a member created from a row with no explicit status is stored
\* with dues-current true, and with life-member status when its member
\* number contains LM in any letter case, with the status financial
\* otherwise.
C17_DefaultStanding ==
    [][ (last'.op = "member_row" /\ last'.outcome = "created"
         /\ StatusCell(last'.row) = "")
        => /\ Cardinality(members' \ members) = 1
           /\ \A m \in members' \ members :
                 /\ m.member_number = last'.row.member_number
                 /\ m.dues_current = TRUE
                 /\ m.status = IF ContainsLM(m.member_number)
                               THEN "financial_life_member"
                               ELSE "financial" ]_vars

\* a member with a lower-case marker in its number was created from a row
\* with no status and is a life member
C17_Witness ==
    /\ last.op = "member_row"
    /\ last.outcome = "created"
    /\ StatusCell(last.row) = ""
    /\ last.row.member_number = "lm7"
    /\ \E m \in members :
          m.member_number = "lm7" /\ m.status = "financial_life_member"

\* C18 as the specification states it: a member created from a row with
\* a non-blank status cell is stored with that status.
C18_ExplicitStatusStored ==
    [][ (last'.op = "member_row" /\ last'.outcome = "created"
         /\ StatusCell(last'.row) # "")
        => \A m \in members' \ members :
               m.status = StatusCell(last'.row) ]_vars

\* what holds of the statuses that MemberProfile.save leaves alone
C18_ExemptStatusStored ==
    [][ (last'.op = "member_row" /\ last'.outcome = "created"
         /\ StatusCell(last'.row) \in
               {"financial_life_member", "non_financial_life_member",
                "new_member", "suspended"})
        => \A m \in members' \ members :
               m.status = StatusCell(last'.row) ]_vars

-----------------------------------------------------------------------------
(* Properties of member lookup and of product images, checked under Spec.  *)

\* C19 as the specification states it: a member row whose non-blank
\* member number no stored member has creates a member with that number,
\* whatever else the store holds.
C19_NewNumberCreated ==
    [][ (/\ last'.op = "member_row"
         /\ RowMemberNumber(last'.row) # ""
         /\ ~ \E m \in members :
                m.member_number = RowMemberNumber(last'.row))
        => \E m \in members' \ members :
              m.member_number = RowMemberNumber(last'.row) ]_vars

\* what holds when, besides, no stored user has the row's username and
\* the handler raises no exception (the row is complete): the member is
\* created
C19_NewNumberAndUsernameCreated ==
    [][ (/\ last'.op = "member_row"
         /\ RowMemberNumber(last'.row) # ""
         /\ ~ \E m \in members :
                m.member_number = RowMemberNumber(last'.row)
         /\ ~ \E u \in users : u.username = RowUsername(last'.row)
         /\ last'.outcome # "raised")
        => \E m \in members' \ members :
              m.member_number = RowMemberNumber(last'.row) ]_vars

-----------------------------------------------------------------------------
(* Property of product images, checked under SpecImages.                   *)

\* the record names an image, in the archive or by URL
NamesImage(rec) == rec.image_path # "" \/ rec.image_url # ""

\* C20: when a record that names an image has a name no stored product
\* has, the product is created whether or not the image is resolved: it
\* is stored with the record's name, with no image when the file is not
\* in the archive, the download fails or the image cannot be saved, no
\* stored product changes, and the run goes on with the next record.
C20_ImageFailureKeepsProduct ==
    [][ (/\ last'.op = "store_product"
         /\ NamesImage(last'.rec)
         /\ ~ \E q \in products : q.name = last'.rec.name)
        => /\ products \subseteq products'
           /\ Cardinality(products' \ products) = 1
           /\ \A p \in products' \ products :
                 /\ p.name = last'.rec.name
                 /\ p.image \in {"", p.name \o ".png", p.name \o ".jpg"}
           /\ phase' = "store"
           /\ next_record' = next_record + 1 ]_vars

\* the image of the first record was not in the archive, or could not be
\* saved: its product is stored without an image, and the second record
\* was stored after it
C20_Witness ==
    /\ last.op = "store_product"
    /\ next_record = 3
    /\ images_dict # {}
    /\ products_data[1].image_path # ""
    /\ products_data[1].name # products_data[2].name
    /\ \E p, q \in products :
          /\ p.name = products_data[1].name /\ p.image = ""
          /\ q.name = products_data[2].name /\ q.id > p.id

-----------------------------------------------------------------------------
(* Properties of the summary and of the tallies, checked under Spec.       *)

\* the first lines of the summary are the first error strings, in order,
\* ten at most, and a line counting the others follows when there are more
FirstTenShown ==
    LET n == IF Len(errors) < 10 THEN Len(errors) ELSE 10
    IN  /\ Len(shown) >= n
        /\ \A i \in 1..n : shown[i] = errors[i]
        /\ IF Len(errors) > 10
           THEN /\ Len(shown) = 11
                /\ shown[11].msg = "more"
                /\ shown[11].n = Len(errors) - 10
           ELSE Len(shown) = n

\* C21 as the specification states it: after a member or officer run the
\* summary shows the first error strings the run retained, ten at most
\* and in row order, with a count of the others; a run that retained at
\* least one error string shows at least one.
C21_RetainedErrorsShown ==
    (phase = "done" /\ kind \in {"member", "officer"}) => FirstTenShown

\* what holds of the runs that counted at least one error
C21_CountedErrorsShown ==
    (phase = "done" /\ kind \in {"member", "officer"} /\ error_count > 0)
        => FirstTenShown

-----------------------------------------------------------------------------
(* Property of two requests at the same time, checked under SpecRace.      *)

\* both requests are over
BothDone == \A r \in DOMAIN requests : requests[r].pc = "done"

\* C22 as the specification states it: when the two requests, each with
\* a row for the same new identifier, are both over, the store holds
\* exactly one member with that number, or one product with that name.
C22_OneEntityAfterRace ==
    (requests # <<>> /\ BothDone) =>
        IF requests[1].kind = "member"
        THEN Cardinality({m \in members : m.member_number = "LM7"}) = 1
        ELSE Cardinality({p \in products : p.name = "Cap"}) = 1

\* what holds of member import, where the member number is unique
C22_OneMemberAfterRace ==
    (requests # <<>> /\ BothDone /\ requests[1].kind = "member") =>
        Cardinality({m \in members : m.member_number = "LM7"}) = 1

-----------------------------------------------------------------------------
(* Properties of the tallies and of the stored records, checked under      *)
(* Spec.                                                                   *)

\* C23: during and after a member or officer import the success, error
\* and skipped counts add up to the number of data rows read so far, the
\* rows whose handling raised included.
C23_TalliesAddUp ==
    (kind \in {"member", "officer"} /\ phase \in {"rows", "done"}) =>
        success_count + error_count + skipped_count = row_num - 2

\* a row whose handling raised has just been tallied
C23_Witness ==
    /\ last.op \in {"member_row", "officer_row"}
    /\ last.outcome = "raised"
    /\ row_num = 2 + MaxRows
    /\ error_count >= 1

-----------------------------------------------------------------------------
(* Properties of the merchandise import, checked under SpecImages.         *)

\* the products with the image field left out
WithoutImage(ps) == {[p EXCEPT !.image = ""] : p \in ps}

\* C24 as the specification states it: a record whose product name is
\* already stored leaves the product table exactly as it was, the image
\* of the stored product included.
C24_ExistingProductUntouched ==
    [][ (last'.op = "store_product" /\ last'.outcome = "found")
            => products' = products ]_vars

\* what holds: every field other than the image stays, and the image
\* stays too when the record names no image
C24_ExistingProductFieldsKept ==
    [][ (last'.op = "store_product" /\ last'.outcome = "found")
            => /\ WithoutImage(products') = WithoutImage(products)
               /\ ~NamesImage(last'.rec) => products' = products ]_vars

\* the number of products a step added
Added == Cardinality(products') - Cardinality(products)

\* C26 as the specification states it: each record the view handles
\* raises the created count by the number of products it added, a record
\* that added a product is not counted as an error, and the created and
\* error counts together never exceed the number of normalized records.
C26_CreatedCountsAdded ==
    [][ last'.op = "store_product"
            => /\ success_count' - success_count = Added
               /\ Added > 0 => error_count' = error_count
               /\ success_count' + error_count' <= Len(products_data) ]_vars

\* what holds: no record is counted twice, and the created count never
\* exceeds the number of products added
C26_CountsBounded ==
    [][ last'.op = "store_product"
            => /\ success_count' - success_count <= Added
               /\ Added <= 1
               /\ success_count' + error_count' <= Len(products_data) ]_vars

-----------------------------------------------------------------------------
(* Property of the member import, checked under Spec.                      *)

\* the users a step created that have no member profile after it
Orphans == {u \in users' \ users : ~\E m \in members' : m.user = u.id}

\* C25 as the specification states it: every user a member row creates
\* has a member profile once the row is handled, whatever became of the
\* row.
C25_UserAndProfileTogether ==
    [][ last'.op = "member_row" => Orphans = {} ]_vars

\* what holds: a row whose handling did not raise leaves no user without
\* a profile
C25_NoOrphanUnlessRaised ==
    [][ (last'.op = "member_row" /\ last'.outcome # "raised")
            => Orphans = {} ]_vars

-----------------------------------------------------------------------------
(* Property of saving a member, checked under SpecSave.                    *)

Exempt == {"financial_life_member", "non_financial_life_member",
           "new_member", "suspended"}

\* C27: when a member record is saved with a status outside the four
\* exempt ones, it is stored as 'financial' if dues_current is true and
\* 'non_financial' if it is false; saved with one of the four, it is
\* stored with that status whatever dues_current is.
C27_StatusFollowsDues ==
    [][ last'.op \in {"webhook", "form"} =>
          \E a \in members' :
              /\ a.member_number = last'.number
              /\ a.dues_current = last'.before.dues_current
              /\ a.status = IF last'.before.status \in Exempt
                            THEN last'.before.status
                            ELSE IF a.dues_current THEN "financial"
                            ELSE "non_financial" ]_vars

\* a member was just saved as 'financial' without dues_current and is
\* stored 'non_financial', while a suspended member whose dues are not
\* current is stored as suspended
C27_Witness ==
    /\ last.op = "form"
    /\ last.before.status = "financial" /\ ~last.before.dues_current
    /\ \E a \in members : /\ a.member_number = last.number
                          /\ a.status = "non_financial"
    /\ \E e \in members : e.status = "suspended" /\ ~e.dues_current

-----------------------------------------------------------------------------
(* Property of the storefront parser, checked under Spec, whose storefront *)
(* rows all carry the handle "mug": a record in products_data is then a    *)
(* record of that handle.                                                  *)

\* the row just read has a title that is not blank
Titled == RowTitle(last'.row) \notin {"", Raised}

\* C28 as the specification states it: a storefront row with a title is
\* dropped as a variant only when an earlier row of its handle gave a
\* record.
C28_VariantOnlyAfterRecord ==
    [][ (last'.op = "parse_shopify" /\ Titled /\ last'.outcome = "dropped")
            => products_data # <<>> ]_vars

\* what holds: such a row is dropped only when an earlier row of its
\* handle was read, with or without a title
C28_VariantOnlyAfterRow ==
    [][ (last'.op = "parse_shopify" /\ Titled /\ last'.outcome = "dropped")
            => GetStrip(last'.row, "Handle") \in seen_handles ]_vars

-----------------------------------------------------------------------------
(* Property of the countdown of a marked member, checked under SpecSync.   *)

Marked == {m \in members : m.marked_for_removal_date # {}}

\* C29 as the specification states it: for a marked member the days until
\* removal are 0 exactly when the member should be removed, and otherwise
\* between 1 and 90.
C29_ZeroIffRemovable ==
    \A m \in Marked :
        /\ DaysUntilRemoval(m, now) = 0 <=> ShouldBeRemoved(m, now)
        /\ ~ShouldBeRemoved(m, now)
              => DaysUntilRemoval(m, now) \in 1..GraceDays

\* what holds: the count is between 0 and 90, and it is 0 for every
\* member who should be removed
C29_ZeroWhenRemovable ==
    \A m \in Marked :
        /\ DaysUntilRemoval(m, now) \in 0..GraceDays
        /\ ShouldBeRemoved(m, now) => DaysUntilRemoval(m, now) = 0

-----------------------------------------------------------------------------
(* Property of the cart, checked under SpecCart, where the inventory of    *)
(* the products never changes.                                             *)

InventoryOf(id) == (CHOOSE p \in products : p.id = id).inventory

\* C30 as the specification states it: every item of the cart has a
\* quantity of at least 1 and at most the inventory of its product.
C30_QuantityWithinInventory ==
    \A i \in cart_items :
        i.quantity >= 1 /\ i.quantity <= InventoryOf(i.product)

\* what holds: the quantity of an item is at least 1, and an update never
\* leaves an item above the inventory
C30_QuantityPositive ==
    /\ \A i \in cart_items : i.quantity >= 1
    /\ last.op = "update_cart_item" /\ last.outcome = "updated"
          => last.quantity <= InventoryOf(last.product)

====
